---- MODULE Spec2Model ----
(***************************************************************************)
(* Verification development for the incremental documentation builder      *)
(* (packages/cli).  The module models                                      *)
(*   - the process lock (core/lock.ts): file-based lock with stale-owner   *)
(*     detection, step by step (SpecLock) and call by call (SpecLockSeq);  *)
(*   - the update run (commands/update.ts): lock, staging log, manifest,   *)
(*     retry executor, signals and crashes (SpecRun);                       *)
(*   - one call of the retry executor withRetry (mcp/tools.ts) with its    *)
(*     delays (SpecRetry);                                                 *)
(*   - saveStaging / saveManifest and the loads, one file-system call per  *)
(*     step, with crashes (SpecSave);                                      *)
(*   - one call of detectChanges (core/manifest.ts) (SpecDetect).          *)
(***************************************************************************)
EXTENDS Integers, Sequences, FiniteSets, TLC

\* ------------------------------------------------------------------------
\* Bounds
\* ------------------------------------------------------------------------
\* number of operating-system processes contending for the lock file
NumProcs == 3

Procs == 1..NumProcs

\* number of update runs started one after the other on the project
MaxRuns == 2

\* number of edits made to the project tree between runs
MaxEdits == 1

\* config.bundleThreshold of the runs (5 when not configured)
BundleThreshold == 2

\* maxRetries passed to withRetry by updateCommand
MaxRetries == 3

\* ------------------------------------------------------------------------
\* State
\* ------------------------------------------------------------------------
VARIABLES
  lockFile,   \* content of .docs/.update.lock (NoFile when absent)
  alive,      \* pids for which process.kill(pid, 0) succeeds
  now,        \* wall clock used for startedAt
  pc,         \* per process: position inside acquireLock / releaseLock
  seen,       \* per process: lockData local of isLockStale / releaseLock
  err,        \* per process: lockInfo carried by the thrown error
  content,      \* project tree on disk: content number of each file, 0 = absent
  edits,        \* edits made so far
  dirty,        \* the tree was edited since the oldest entry of the staging file was staged
  manifestFile, \* .docs/manifest.json
  stagingFile,  \* .docs/staging.json
  run,          \* number of the update run started last (0: none yet)
  rpc,          \* position of that run inside updateCommand
  optYes,       \* options.yes, until its last read (updateCommand 464)
  handlers,     \* the cleanup listeners of setupLockCleanup are registered
  tree,         \* currentTree
  rootHash,     \* rootHash
  manifest,     \* manifest
  staging,      \* staging
  resuming,     \* resumingFromCrash
  phase,        \* "files" or "dirs": which loop is running
  todo,         \* the nodes of that loop not finished yet, current one first
  attempt,      \* attempt of withRetry
  pendingCount, \* pendingCount
  rateLimitHit, \* rateLimitHit
  called,       \* history: paths handed to the summarizer in this run
  sigInSleep,   \* history: a signal arrived during a backoff sleep of this run
  startStaged,  \* history: completed entries of the staging log the run resumed from
  prevEnd,      \* history: how the previous run ended
  sameTree,     \* history: at the start of the run, ~dirty
  editedSinceRun, \* the tree was edited since the last run was started
  untouched,    \* history: the tree was not edited between the start of the previous run and this run
  staleStaged,  \* history: completed entries of the stale staging log the run found
  selected,     \* history: filesToProcess of the run, once computed (forced: --force changed it)
  owed,         \* history, until filesToProcess is computed: files the previous run selected and ended without a result for
  succeeded,    \* history: paths the summarizer call of this run succeeded for
  callSeq,      \* history: paths handed to the summarizer in this run, in order
  writeFailed,  \* history: saveStaging or saveManifest threw in this run
  prevClean,    \* history: the previous run returned with every selected path summarized and the staging log cleared
  detected,     \* history: the ChangeDetection the run computed (updateCommand 421-423)
  summarizerCalls, \* history: invocations of the summarizer by withRetry in this run (-1: not counted)
  opts,         \* withRetry: opts
  wrPc,         \* withRetry: position ("idle", "call", "sleep", "returned", "thrown")
  wrAttempt,    \* withRetry: attempt
  lastError,    \* withRetry: lastError
  delay,        \* withRetry: delay computed last
  fnCalls,      \* history: invocations of fn so far
  sleeps,       \* history: sleeps finished so far
  raised,       \* history: the errors fn rejected with, in order
  wrResult,     \* withRetry: the value returned or the error thrown
  fs,           \* the text of staging.json, staging.json.tmp and manifest.json
  svPc,         \* position inside saveStaging / saveManifest ("idle": outside)
  svDoc,        \* number of the document the call is saving
  saves,        \* calls of saveStaging / saveManifest so far
  svCrashed,    \* history: the process crashed inside the call made last
  stCall,       \* history of the last saveStaging call: old, what loadStaging returned when it began, new, the document it saves
  stReturned,   \* history: saveStaging calls that returned
  mfCall,       \* history of the last saveManifest call: old, what loadManifest returned when it began, new, the document it saves
  dcTree,       \* detectChanges: currentTree, nodes with lastAnalyzed
  dcManifest,   \* detectChanges: manifest (loaded FALSE: null), nodes with lastAnalyzed
  dcResult,     \* detectChanges: the ChangeDetection returned (done FALSE: not yet called)
  dcBefore,     \* history: currentTree as it was passed to detectChanges
  diskBytes,    \* tree builder: the bytes of every file under the root directory
  cfgExclude,   \* tree builder: the exclude patterns of the configuration
  readdirOrder, \* tree builder: the order in which readdirSync enumerated each directory
  builtTree,    \* tree builder: { tree, rootHash } returned (built FALSE: not yet called)
  prevTree,     \* history: what the call before the last edit returned
  editedLeaf    \* history: the file whose bytes were changed last (Root: none)

lockVars == <<lockFile, alive, now>>
procVars == <<pc, seen, err>>
diskVars == <<content, edits, dirty, manifestFile, stagingFile>>
memVars == <<optYes, handlers, tree, rootHash, manifest, staging, resuming,
             phase, todo, attempt, pendingCount, rateLimitHit>>
histVars == <<called, sigInSleep, startStaged, prevEnd, sameTree>>
auditVars == <<editedSinceRun, untouched, staleStaged, selected, owed,
               succeeded, callSeq, writeFailed, prevClean, detected,
                 summarizerCalls>>
runVars == <<diskVars, run, rpc, memVars, histVars, auditVars>>
retryVars == <<opts, wrPc, wrAttempt, lastError, delay, fnCalls, sleeps,
               raised, wrResult>>
saveVars == <<fs, svPc, svDoc, saves, svCrashed, stCall, stReturned, mfCall>>
detectVars == <<dcTree, dcManifest, dcResult, dcBefore>>
buildVars == <<diskBytes, cfgExclude, readdirOrder, builtTree, prevTree,
               editedLeaf>>
unitVars == <<retryVars, saveVars, detectVars, buildVars>>
vars == <<lockFile, alive, now, pc, seen, err, runVars, unitVars>>

\* the lock file does not exist
NoFile == [exists |-> FALSE, pid |-> 0, startedAt |-> 0]

\* lockData written by acquireLock: pid and startedAt (hostname is constant)
LockData(p, t) == [exists |-> TRUE, pid |-> p, startedAt |-> t]

\* ------------------------------------------------------------------------
\* lock.ts: pure parts
\* ------------------------------------------------------------------------
\* mutant: the probe never throws, every recorded owner counts as running
isProcessRunning_NeverThrows(pid, al) == TRUE

\* process.kill(pid, 0) succeeds
isProcessRunning(pid, al) == pid \in al

\* existsSync + readFileSync + JSON.parse; null (NoFile) when absent
loadLockFile(f) == f

\* mutant: the negation of the probe is dropped
isLockStale_Inverted(lockData, al) ==
  IF ~lockData.exists THEN TRUE ELSE isProcessRunning(lockData.pid, al)

\* isLockStale applied to the data it loaded
isLockStale(lockData, al) ==
  IF ~lockData.exists THEN TRUE ELSE ~isProcessRunning(lockData.pid, al)

\* checkLock run without interruption: its return value ...
checkLock(f, al) ==
  IF ~f.exists THEN FALSE
  ELSE IF isLockStale(loadLockFile(f), al) THEN FALSE ELSE TRUE

\* ... and the lock file it leaves (a stale file is unlinked)
checkLockFile(f, al) ==
  IF f.exists /\ isLockStale(loadLockFile(f), al) THEN NoFile ELSE f

\* mutant: the owner test before unlinkSync is dropped
releaseLockFile_NoOwnerTest(f, p) ==
  IF f.exists THEN NoFile ELSE f

\* releaseLock run without interruption: the lock file it leaves
releaseLockFile(f, p) ==
  IF f.exists /\ loadLockFile(f).exists /\ loadLockFile(f).pid = p
  THEN NoFile ELSE f

\* ------------------------------------------------------------------------
\* The project tree, hashes, manifest and staging data (pure parts)
\* ------------------------------------------------------------------------
\* paths the project tree can hold: directory d with two file slots and the
\* directory d/e, which holds one file
Files == {"d/a", "d/b", "d/e/f"}
Dirs == {".", "d", "d/e"}
AllPaths == Files \cup Dirs

\* readdirSync order of a directory's entries
ChildSeq(p) ==
  IF p = "." THEN <<"d">>
  ELSE IF p = "d" THEN <<"d/a", "d/b", "d/e">>
  ELSE IF p = "d/e" THEN <<"d/e/f">>
  ELSE <<>>

\* order in which traverse() inserts the nodes (a directory after its entries)
PathOrder == <<"d/a", "d/b", "d/e/f", "d/e", "d", ".">>

\* getPathDepth: 0 for ".", else the number of path segments
getPathDepth(p) ==
  IF p = "." THEN 0
  ELSE IF p = "d" THEN 1
  ELSE IF p \in {"d/a", "d/b", "d/e"} THEN 2
  ELSE 3

\* Cantor pairing, used to number finite sequences without collisions
Pair(x, y) == ((x + y) * (x + y + 1)) \div 2 + y

\* createHash('sha256').update(s).digest('hex'): a collision-free digest of
\* the sequence s of symbols (folded from the last symbol, which keeps the
\* numbers small for ascending sequences)
RECURSIVE Digest(_)
Digest(s) ==
  IF s = <<>> THEN 0
  ELSE Pair(s[Len(s)], Digest(SubSeq(s, 1, Len(s) - 1))) + 1

\* insert x into the ascending sequence s
RECURSIVE Insert(_, _)
Insert(x, s) ==
  IF s = <<>> THEN <<x>>
  ELSE IF x <= Head(s) THEN <<x>> \o s
  ELSE <<Head(s)>> \o Insert(x, Tail(s))

\* [...childrenHashes].sort()
RECURSIVE sortHashes(_)
sortHashes(s) ==
  IF s = <<>> THEN <<>> ELSE Insert(Head(s), sortHashes(Tail(s)))

\* mutant: the digest also covers the time of the run
computeFileHash_WithTime(v) == Digest(<<v + run>>)

\* computeFileHash: digest of the file's bytes (content number v)
computeFileHash(v) == Digest(<<v>>)

\* mutant: the children hashes are joined in the order given
computeDirectoryHash_Unsorted(childrenHashes) == Digest(childrenHashes)

\* computeDirectoryHash: digest of the sorted, joined children hashes
computeDirectoryHash(childrenHashes) == Digest(sortHashes(childrenHashes))

\* no summaries on a node
NoSum == [by |-> 0, of |-> 0]

\* a path that is not in a node map
NoNode == [present |-> FALSE, hash |-> 0, sum |-> NoSum]

\* the entry exists on disk (content 0: no such file; directories stay)
Present(p, c) == IF p \in Files THEN c[p] > 0 ELSE TRUE

\* fileHash of a file node, childrenHash of a directory node
RECURSIVE HashOf(_, _)
HashOf(p, c) ==
  IF p \in Files THEN computeFileHash(c[p])
  ELSE LET cs == SelectSeq(ChildSeq(p), LAMBDA q : Present(q, c))
       IN computeDirectoryHash([i \in 1..Len(cs) |-> HashOf(cs[i], c)])

\* buildCodeMerkleTree: the node map (fresh nodes carry no summaries) ...
buildCodeMerkleTree(c) ==
  [p \in AllPaths |->
     IF Present(p, c)
     THEN [present |-> TRUE, hash |-> HashOf(p, c), sum |-> NoSum]
     ELSE NoNode]

\* ... and rootHash
rootHashOf(c) == HashOf(".", c)

\* createManifest('', undefined) as written by init
createManifest == [codeRootHash |-> 0, nodes |-> [p \in AllPaths |-> NoNode]]

\* the staging file does not exist / loadStaging returned null
NoStaging == [exists |-> FALSE, rootHash |-> 0, completed |-> <<>>, failed |-> <<>>]

\* createStaging(rootHash)
createStaging(rh) == [exists |-> TRUE, rootHash |-> rh, completed |-> <<>>, failed |-> <<>>]

\* addCompletedEntry
addCompletedEntry(st, path, fileHash, summaries) ==
  [st EXCEPT !.completed =
     Append(@, [path |-> path, fileHash |-> fileHash, summaries |-> summaries])]

\* staging.failed.findIndex(f => f.path === path), 0 when not found
FailedIndex(failed, path) ==
  IF \E i \in DOMAIN failed : failed[i].path = path
  THEN CHOOSE i \in DOMAIN failed :
         /\ failed[i].path = path
         /\ \A j \in DOMAIN failed : failed[j].path = path => i <= j
  ELSE 0

\* mutant: the failure is not recorded
addFailedEntry_Dropped(st, path, fileHash, error, retryCount, isRateLimited) ==
  st

\* addFailedEntry: replaces the entry of the path, else appends
addFailedEntry(st, path, fileHash, error, retryCount, isRateLimited) ==
  LET entry == [path |-> path, fileHash |-> fileHash, error |-> error,
                retryCount |-> retryCount, isRateLimited |-> isRateLimited]
      i == FailedIndex(st.failed, path)
  IN IF i > 0
     THEN [st EXCEPT !.failed = [@ EXCEPT ![i] = entry]]
     ELSE [st EXCEPT !.failed = Append(@, entry)]

\* getCompletedPaths
getCompletedPaths(st) == {st.completed[i].path : i \in DOMAIN st.completed}

\* the loop of mergeStaging over staging.completed
RECURSIVE MergeEntries(_, _)
MergeEntries(nodes, entries) ==
  IF entries = <<>> THEN nodes
  ELSE LET e == Head(entries)
       IN MergeEntries(
            IF nodes[e.path].present
            THEN [nodes EXCEPT ![e.path].sum = e.summaries]
            ELSE nodes,
            Tail(entries))

\* mutant: the node map is replaced by the tree, the staged summaries are
\* not copied
mergeStaging_NoSummaries(mf, tr, st) ==
  [mf EXCEPT !.nodes = tr]

\* mergeStaging(manifest, tree, staging)
mergeStaging(mf, tr, st) ==
  [mf EXCEPT !.nodes = MergeEntries(tr, st.completed)]

\* the paths of PathOrder that satisfy Test, in order
PathsWhere(Test(_)) == SelectSeq(PathOrder, Test)

detectChanges_NoDeleted(tr, mf) ==
  [new |-> PathsWhere(LAMBDA p : tr[p].present /\ ~mf.nodes[p].present),
   changed |-> PathsWhere(LAMBDA p : /\ tr[p].present /\ mf.nodes[p].present
                                      /\ tr[p].hash # mf.nodes[p].hash),
   unchanged |-> PathsWhere(LAMBDA p : /\ tr[p].present /\ mf.nodes[p].present
                                        /\ tr[p].hash = mf.nodes[p].hash),
   deleted |-> <<>>]

\* detectChanges: the classification ...
detectChanges(tr, mf) ==
  [new |-> PathsWhere(LAMBDA p : tr[p].present /\ ~mf.nodes[p].present),
   changed |-> PathsWhere(LAMBDA p : /\ tr[p].present /\ mf.nodes[p].present
                                      /\ tr[p].hash # mf.nodes[p].hash),
   unchanged |-> PathsWhere(LAMBDA p : /\ tr[p].present /\ mf.nodes[p].present
                                        /\ tr[p].hash = mf.nodes[p].hash),
   deleted |-> PathsWhere(LAMBDA p : mf.nodes[p].present /\ ~tr[p].present)]

\* detectChanges 117-118: summaries and lastAnalyzed of the stored node are
\* copied onto the current node (the nodes of the update runs carry no
\* lastAnalyzed)
copyStored(currentNode, storedNode) ==
  IF "lastAnalyzed" \in DOMAIN currentNode
  THEN [currentNode EXCEPT !.sum = storedNode.sum,
                           !.lastAnalyzed = storedNode.lastAnalyzed]
  ELSE [currentNode EXCEPT !.sum = storedNode.sum]

detectChangesTree_NoCopy(tr, mf) == tr

\* ... and the tree it leaves: unchanged nodes take the stored summaries
detectChangesTree(tr, mf) ==
  [p \in AllPaths |->
     IF tr[p].present /\ mf.nodes[p].present /\ tr[p].hash = mf.nodes[p].hash
     THEN copyStored(tr[p], mf.nodes[p])
     ELSE tr[p]]

\* detectChanges 97-101: no manifest, everything is new
detectChangesNoManifest(tr) ==
  [new |-> PathsWhere(LAMBDA p : tr[p].present),
   changed |-> <<>>, unchanged |-> <<>>, deleted |-> <<>>]

\* options.force: every file node counts as new, nothing is copied
forcedChanges(tr) ==
  [new |-> PathsWhere(LAMBDA p : p \in Files /\ tr[p].present),
   changed |-> <<>>, unchanged |-> <<>>, deleted |-> <<>>]

\* insert path p behind the paths at least as deep (stable, deepest first)
RECURSIVE InsertByDepth(_, _)
InsertByDepth(p, s) ==
  IF s = <<>> THEN <<p>>
  ELSE IF getPathDepth(p) > getPathDepth(Head(s)) THEN <<p>> \o s
  ELSE <<Head(s)>> \o InsertByDepth(p, Tail(s))

\* sortByDepth(nodes, true)
RECURSIVE sortByDepth(_)
sortByDepth(s) ==
  IF s = <<>> THEN <<>>
  ELSE InsertByDepth(s[Len(s)], sortByDepth(SubSeq(s, 1, Len(s) - 1)))

hasDocumentedChildren_Always(tr, p) == TRUE

\* hasDocumentedChildren: some child of directory p carries summaries
hasDocumentedChildren(tr, p) ==
  \E i \in DOMAIN ChildSeq(p) :
    /\ tr[ChildSeq(p)[i]].present
    /\ tr[ChildSeq(p)[i]].sum # NoSum

directoriesToProcess_ShallowFirst(tr, mf) ==
  LET s == sortByDepth(PathsWhere(LAMBDA p :
             /\ p \in Dirs /\ tr[p].present
             /\ p # "."
             /\ hasDocumentedChildren(tr, p)
             /\ \/ tr[p].sum = NoSum
                \/ ~mf.nodes[p].present
                \/ mf.nodes[p].hash # tr[p].hash))
  IN [i \in 1..Len(s) |-> s[Len(s) + 1 - i]]

\* the filter of the directory phase: some child carries summaries and the
\* directory has none, is not in the manifest or has another childrenHash;
\* the directories that pass are sorted deepest first
directoriesToProcess(tr, mf) ==
  sortByDepth(PathsWhere(LAMBDA p :
    /\ p \in Dirs /\ tr[p].present
    /\ p # "."
    /\ hasDocumentedChildren(tr, p)
    /\ \/ tr[p].sum = NoSum
       \/ ~mf.nodes[p].present
       \/ mf.nodes[p].hash # tr[p].hash))

\* ------------------------------------------------------------------------
\* SpecLock: acquireLock / releaseLock, one file-system call per step
\* ------------------------------------------------------------------------
\* the memory of a process that runs no updateCommand
NoMemory ==
  /\ optYes = FALSE
  /\ handlers = FALSE
  /\ tree = [p \in AllPaths |-> NoNode]
  /\ rootHash = 0
  /\ manifest = createManifest
  /\ staging = NoStaging
  /\ resuming = FALSE
  /\ phase = "files"
  /\ todo = <<>>
  /\ attempt = 0
  /\ pendingCount = 0
  /\ rateLimitHit = FALSE

\* filesToProcess is not computed yet
NoSelection == [known |-> FALSE, forced |-> FALSE, paths |-> {}]

\* the value n of the counter summarizerCalls, where it is kept
Counted(n) == IF summarizerCalls < 0 THEN summarizerCalls ELSE n

\* the run has not reached the change detection yet
NotDetected ==
  [known |-> FALSE, force |-> FALSE, new |-> <<>>, changed |-> <<>>,
   unchanged |-> <<>>, deleted |-> <<>>]

\* right after `init`: an empty manifest, no run started
NoRunYet ==
  /\ edits = 0
  /\ manifestFile = createManifest
  /\ run = 0
  /\ rpc = "none"
  /\ NoMemory
  /\ called = {}
  /\ sigInSleep = FALSE
  /\ startStaged = <<>>
  /\ prevEnd = "none"
  /\ sameTree = TRUE
  /\ editedSinceRun = FALSE
  /\ untouched = TRUE
  /\ staleStaged = <<>>
  /\ selected = NoSelection
  /\ owed = {}
  /\ succeeded = {}
  /\ callSeq = <<>>
  /\ writeFailed = FALSE
  /\ prevClean = FALSE
  /\ detected = NotDetected

\* the project right after `init`: files d/a and d/e/f
InitProject ==
  /\ content = [f \in Files |-> IF f = "d/b" THEN 0 ELSE 1]
  /\ stagingFile = NoStaging
  /\ dirty = FALSE
  /\ NoRunYet
  /\ summarizerCalls = -1

\* ------------------------------------------------------------------------
\* tools.ts: the retry executor, pure parts (times in milliseconds)
\* ------------------------------------------------------------------------
\* DEFAULT_OPTIONS
DEFAULT_OPTIONS ==
  [maxRetries |-> 3, initialDelayMs |-> 1000, maxDelayMs |-> 60000,
   backoffMultiplier |-> 2]

\* the options withRetry is called with: { ...DEFAULT_OPTIONS, ...options }
\* for maxRetries 0..MaxRetries and two initial delays (1000 as passed by
\* updateCommand, 40000 to have the exponential delay pass maxDelayMs)
RetryOptions ==
  {[DEFAULT_OPTIONS EXCEPT !.maxRetries = m, !.initialDelayMs = d] :
     m \in 0..MaxRetries, d \in {1000, 40000}}

\* no error
NoError ==
  [kind |-> "none", hasRetryAfter |-> FALSE, retryAfter |-> 0,
   isRetryable |-> FALSE, id |-> 0]

\* the errors the id-th invocation of fn can reject with: RateLimitError
\* without retryAfter or with the seconds extractRetryAfter parsed from the
\* retry-after header, ApiError retryable (status >= 500 or 408) or not, and
\* any other Error
ErrorsOf(id) ==
  {[kind |-> "RateLimitError", hasRetryAfter |-> FALSE, retryAfter |-> 0,
    isRetryable |-> FALSE, id |-> id]}
  \cup {[kind |-> "RateLimitError", hasRetryAfter |-> TRUE, retryAfter |-> r,
          isRetryable |-> FALSE, id |-> id] : r \in {0, 5, 90}}
  \cup {[kind |-> "ApiError", hasRetryAfter |-> FALSE, retryAfter |-> 0,
          isRetryable |-> b, id |-> id] : b \in BOOLEAN}
  \cup {[kind |-> "Error", hasRetryAfter |-> FALSE, retryAfter |-> 0,
          isRetryable |-> FALSE, id |-> id]}

shouldRetry_Always(error) == TRUE

\* shouldRetry
shouldRetry(error) ==
  IF error.kind = "RateLimitError" THEN TRUE
  ELSE IF error.kind = "ApiError" THEN error.isRetryable
  ELSE FALSE

\* Math.pow(b, e) for natural e
RECURSIVE Pow(_, _)
Pow(b, e) == IF e = 0 THEN 1 ELSE b * Pow(b, e - 1)

\* Math.min
Min(a, b) == IF a <= b THEN a ELSE b

\* options.initialDelayMs * Math.pow(options.backoffMultiplier, attempt)
exponentialDelay(att, options) ==
  options.initialDelayMs * Pow(options.backoffMultiplier, att)

\* Math.random() * 0.1 * exponentialDelay for a draw of 0, one half and
\* just below 1
Jitters(att, options) ==
  {0, exponentialDelay(att, options) \div 20,
   exponentialDelay(att, options) \div 10 - 1}

\* error instanceof RateLimitError && error.retryAfter (0 and undefined are
\* falsy)
honorsRetryAfter(error) ==
  /\ error.kind = "RateLimitError"
  /\ error.hasRetryAfter
  /\ error.retryAfter # 0

calculateDelay_NoCap(att, options, error, jitter) ==
  IF honorsRetryAfter(error)
  THEN error.retryAfter * 1000
  ELSE exponentialDelay(att, options) + jitter

\* calculateDelay, with the jitter drawn by Math.random() as a parameter
calculateDelay(att, options, error, jitter) ==
  IF honorsRetryAfter(error)
  THEN Min(error.retryAfter * 1000, options.maxDelayMs)
  ELSE Min(exponentialDelay(att, options) + jitter, options.maxDelayMs)

\* ------------------------------------------------------------------------
\* lock.ts / manifest.ts: loading and saving staging.json and manifest.json;
\* a file is its text, a sequence of chunks in the order writeFileSync
\* writes them
\* ------------------------------------------------------------------------
\* number of saveStaging / saveManifest calls made in a behaviour
MaxSaves == 3

stagingPath == "staging.json"

manifestPath == "manifest.json"

tempPath_SamePath == stagingPath

\* tempPath of saveStaging: `${stagingPath}.tmp`
tempPath == "staging.json.tmp"

FsPaths == {stagingPath, "staging.json.tmp", manifestPath}

\* the file does not exist
NoText == [exists |-> FALSE, text |-> <<>>]

\* JSON.stringify(doc, null, 2) of document number d
Stringify(d) == <<"{", ToString(d), "}">>

\* what a load returns: null, or the document parsed
Null == [ok |-> FALSE, doc |-> 0]

\* JSON.parse: the document of a complete text; it throws on any other text
\* and the catch of loadStaging / loadManifest returns null
ParseOrNull(text) ==
  IF /\ Len(text) = 3
     /\ text[1] = "{"
     /\ text[3] = "}"
     /\ \E d \in 0..MaxSaves : ToString(d) = text[2]
  THEN [ok |-> TRUE, doc |-> CHOOSE d \in 0..MaxSaves : ToString(d) = text[2]]
  ELSE Null

\* loadStaging
loadStaging(f) ==
  IF ~f[stagingPath].exists THEN Null ELSE ParseOrNull(f[stagingPath].text)

\* loadManifest
loadManifest(f) ==
  IF ~f[manifestPath].exists THEN Null ELSE ParseOrNull(f[manifestPath].text)

\* writeFileSync, first step: the file is opened with flag 'w' (created or
\* truncated)
openTruncate(f, path) == [f EXCEPT ![path] = [exists |-> TRUE, text |-> <<>>]]

\* writeFileSync, next step: one more chunk of the data reaches the file
writeChunk(f, path, data) ==
  [f EXCEPT ![path].text = Append(@, data[Len(@) + 1])]

\* renameSync(oldPath, newPath)
renameSync(f, oldPath, newPath) ==
  IF oldPath = newPath THEN f
  ELSE [f EXCEPT ![newPath] = f[oldPath], ![oldPath] = NoText]

\* an initialised project: manifest.json holds document 0, no staging file,
\* no save under way
NoSave ==
  /\ fs = [p \in FsPaths |->
             IF p = manifestPath THEN [exists |-> TRUE, text |-> Stringify(0)]
             ELSE NoText]
  /\ svPc = "idle"
  /\ svDoc = 0
  /\ saves = 0
  /\ svCrashed = FALSE
  /\ stCall = [old |-> Null, new |-> 0]
  /\ stReturned = 0
  /\ mfCall = [old |-> [ok |-> TRUE, doc |-> 0], new |-> 0]

\* ------------------------------------------------------------------------
\* manifest.ts: detectChanges on its own, nodes with lastAnalyzed
\* ------------------------------------------------------------------------
\* the paths that vary in the trees and manifests passed to detectChanges
DetectPaths == {"d/a", "d"}

\* a path that is not in the node map
NoTimedNode == [present |-> FALSE, hash |-> 0, sum |-> NoSum, lastAnalyzed |-> 0]

\* the nodes a current tree can hold at a path: fileHash / childrenHash 1 or
\* 2, lastAnalyzed 9 (buildCodeMerkleTree 106 / 138), without summaries or
\* with summaries of its own
CurrentNodes ==
  {NoTimedNode}
  \cup {[present |-> TRUE, hash |-> h, sum |-> sm, lastAnalyzed |-> 9] :
          h \in {1, 2}, sm \in {NoSum, [by |-> 7, of |-> 7]}}

\* the nodes a manifest can hold at a path: hash 1 or 2, summaries of run 1
\* or none, lastAnalyzed 3
StoredNodes ==
  {NoTimedNode}
  \cup UNION {{[present |-> TRUE, hash |-> h, sum |-> sm, lastAnalyzed |-> 3] :
                  sm \in {NoSum, [by |-> 1, of |-> h]}} : h \in {1, 2}}

\* the node maps that hold nodes of Nodes at DetectPaths and nothing else
NodeMaps(Nodes) ==
  {[p \in AllPaths |-> IF p \in DetectPaths THEN m[p] ELSE NoTimedNode] :
     m \in [DetectPaths -> Nodes]}

\* detectChanges has not been called
NoChanges ==
  [done |-> FALSE, new |-> <<>>, changed |-> <<>>, unchanged |-> <<>>,
   deleted |-> <<>>]

\* detectChanges has returned the ChangeDetection r
Returned(r) ==
  [done |-> TRUE, new |-> r.new, changed |-> r.changed,
   unchanged |-> r.unchanged, deleted |-> r.deleted]

\* ------------------------------------------------------------------------
\* The tree builder on a directory with entries to exclude
\* ------------------------------------------------------------------------
\* a relative path is the sequence of its segments; '.' is the empty sequence
Root == <<>>

\* the regular files under the root directory
TreeFiles == {<<"dist", "a.ts">>, <<"src", "b.ts">>, <<"src", "logo.png">>}

\* the directories, the root included
TreeDirs == {Root, <<"dist">>, <<"src">>}

TreePaths == TreeFiles \cup TreeDirs

\* contents a file can have
Bytes == {1, 2}

\* the directory holding the entry p
parentOf(p) == SubSeq(p, 1, Len(p) - 1)

\* the entries readdirSync(d) returns, in some order
entriesOf(d) == {p \in TreePaths : p # Root /\ parentOf(p) = d}

\* the orders in which readdirSync can enumerate the entries of every directory
Enumerations ==
  LET Orders(S) == {s \in [1..Cardinality(S) -> S] :
                      \A i, j \in DOMAIN s : s[i] = s[j] => i = j}
  IN {order \in [TreeDirs -> UNION {Orders(entriesOf(d)) : d \in TreeDirs}] :
        \A d \in TreeDirs : order[d] \in Orders(entriesOf(d))}

\* the paths in the order of String comparison, as Array.prototype.sort leaves them
SortedPaths ==
  << <<"dist">>, <<"dist", "a.ts">>, <<"src">>, <<"src", "b.ts">>,
     <<"src", "logo.png">> >>

\* childPaths.sort()
sortPaths(s) == SelectSeq(SortedPaths, LAMBDA p : \E i \in DOMAIN s : s[i] = p)

\* the exclude patterns of the configuration, split at '/': a directory name,
\* an extension, an exact path, a glob of one segment and a glob with a path
ExcludeRules ==
  {<<"dist">>, <<"*.png">>, <<"src", "b.ts">>, <<"d*">>, <<"src", "*.ts">>}

\* pattern.includes('*')
includesStar(pattern) == \E i \in DOMAIN pattern : pattern[i] \in {"*.png", "d*", "*.ts"}

\* pattern.startsWith('*.')
startsWithStarDot(pattern) == pattern[1] \in {"*.png", "*.ts"}

\* fileName.endsWith(pattern.slice(1))
endsWithExtension(fileName, pattern) ==
  \/ pattern[1] = "*.png" /\ fileName \in {"logo.png"}
  \/ pattern[1] = "*.ts" /\ fileName \in {"a.ts", "b.ts"}

\* the regular expression of one pattern segment ('*' is '[^/]*') on one name
segmentMatches(segment, name) ==
  IF segment = "d*" THEN name \in {"dist"}
  ELSE IF segment = "*.png" THEN name \in {"logo.png"}
  ELSE IF segment = "*.ts" THEN name \in {"a.ts", "b.ts"}
  ELSE segment = name

\* new RegExp('^' + escaped + '$').test(relativePath), no '**' in the pattern
globMatches(pattern, relativePath) ==
  /\ Len(pattern) = Len(relativePath)
  /\ \A i \in DOMAIN pattern : segmentMatches(pattern[i], relativePath[i])

\* shouldExclude(relativePath, excludePatterns), relativePath below the root
shouldExclude(relativePath, excludePatterns) ==
  LET pathParts == relativePath
      fileName == pathParts[Len(pathParts)]
      includesSlash(pattern) == Len(pattern) > 1
      matches(pattern) ==
        IF relativePath = pattern THEN TRUE
        ELSE IF ~includesSlash(pattern) /\ ~includesStar(pattern)
                /\ fileName = pattern[1] THEN TRUE
        ELSE IF startsWithStarDot(pattern) /\ ~includesSlash(pattern)
          THEN endsWithExtension(fileName, pattern)
        ELSE IF includesStar(pattern) THEN globMatches(pattern, relativePath)
        ELSE \/ \E i \in DOMAIN pathParts :
                  ~includesSlash(pattern) /\ pathParts[i] = pattern[1]
             \/ /\ Len(relativePath) > Len(pattern)
                /\ SubSeq(relativePath, 1, Len(pattern)) = pattern
  IN \E pattern \in excludePatterns : matches(pattern)

\* mutant: only files are tested against the exclude patterns
skipped_FilesOnly(relativePath, excludePatterns) ==
  relativePath \in TreeFiles /\ shouldExclude(relativePath, excludePatterns)

\* traverse 92-95: the entry is skipped (the root never is)
skipped(relativePath, excludePatterns) ==
  relativePath # Root /\ shouldExclude(relativePath, excludePatterns)

\* traverse returned null (0 stands for a fingerprint that is not set)
NullNode ==
  [path |-> Root, type |-> "null", fileHash |-> 0, childrenHash |-> 0,
   children |-> <<>>]

\* the MerkleNode of a file
fileNode(relativePath, fileHash) ==
  [path |-> relativePath, type |-> "file", fileHash |-> fileHash,
   childrenHash |-> 0, children |-> <<>>]

\* the MerkleNode of a directory
directoryNode(relativePath, childrenHash, children) ==
  [path |-> relativePath, type |-> "directory", fileHash |-> 0,
   childrenHash |-> childrenHash, children |-> children]

\* mutant: a directory among the children contributes the empty string
childHash_FilesOnly(child) == child.fileHash

\* child.fileHash || child.childrenHash || ''
childHash(child) ==
  IF child.fileHash # 0 THEN child.fileHash ELSE child.childrenHash

\* the empty nodes record
NoNodes == [p \in TreePaths |-> NullNode]

\* traverse(currentPath, rootDir): the node returned, and the entries it and
\* the calls below it have put into nodes
RECURSIVE traverse(_, _, _, _)
traverse(relativePath, bytes, excludePatterns, order) ==
  IF skipped(relativePath, excludePatterns)
  THEN [node |-> NullNode, nodes |-> NoNodes]
  ELSE IF relativePath \in TreeFiles
  THEN LET node == fileNode(relativePath, computeFileHash(bytes[relativePath]))
       IN [node |-> node, nodes |-> [NoNodes EXCEPT ![relativePath] = node]]
  ELSE LET entries == order[relativePath]
           visits == [i \in DOMAIN entries |->
                        traverse(entries[i], bytes, excludePatterns, order)]
           kept == SelectSeq([i \in DOMAIN entries |-> i],
                             LAMBDA i : visits[i].node.type # "null")
           childNodes == [k \in DOMAIN kept |-> visits[kept[k]].node]
           childPaths == [k \in DOMAIN kept |-> childNodes[k].path]
           childrenHashes == [k \in DOMAIN kept |-> childHash(childNodes[k])]
           node == directoryNode(relativePath,
                                 computeDirectoryHash(childrenHashes),
                                 sortPaths(childPaths))
           below(q) == {visits[i].nodes[q] : i \in DOMAIN entries} \ {NullNode}
       IN [node |-> node,
           nodes |-> [q \in TreePaths |->
                        IF q = relativePath THEN node
                        ELSE IF below(q) = {} THEN NullNode
                        ELSE CHOOSE n \in below(q) : TRUE]]

\* buildCodeMerkleTree(rootPath, excludePatterns) was not called
NotBuilt == [built |-> FALSE, tree |-> NoNodes, rootHash |-> 0]

\* buildCodeMerkleTree(rootPath, excludePatterns) on the files with the given
\* bytes, readdirSync enumerating in the given order: { tree, rootHash }
buildMerkleTree(bytes, excludePatterns, order) ==
  LET rootNode == traverse(Root, bytes, excludePatterns, order)
  IN [built |-> TRUE, tree |-> rootNode.nodes,
      rootHash |-> rootNode.node.childrenHash]

\* readdirSync enumerating every directory in the order of the names
SortedOrder == [d \in TreeDirs |-> sortPaths(SelectSeq(SortedPaths, LAMBDA p : p \in entriesOf(d)))]

\* no call of buildCodeMerkleTree is under observation
NoBuild ==
  /\ diskBytes = [f \in TreeFiles |-> 1]
  /\ cfgExclude = {}
  /\ readdirOrder = SortedOrder
  /\ builtTree = NotBuilt
  /\ prevTree = NotBuilt
  /\ editedLeaf = Root

\* no call of detectChanges is under observation
NoDetect ==
  /\ dcTree = [p \in AllPaths |-> NoTimedNode]
  /\ dcManifest = [loaded |-> FALSE,
                   manifest |-> [codeRootHash |-> 0,
                                 nodes |-> [p \in AllPaths |-> NoTimedNode]]]
  /\ dcResult = NoChanges
  /\ dcBefore = [p \in AllPaths |-> NoTimedNode]

\* withRetry is not running
NoRetry ==
  /\ opts = DEFAULT_OPTIONS
  /\ wrPc = "idle"
  /\ wrAttempt = 0
  /\ lastError = NoError
  /\ delay = 0
  /\ fnCalls = 0
  /\ sleeps = 0
  /\ raised = <<>>
  /\ wrResult = [kind |-> "none", value |-> 0, error |-> NoError]

InitLockFile ==
  /\ lockFile = NoFile
  /\ alive = Procs
  /\ now = 1
  /\ pc = [p \in Procs |-> "idle"]
  /\ seen = [p \in Procs |-> NoFile]
  /\ err = [p \in Procs |-> NoFile]
  /\ InitProject

\* no call of withRetry is under observation
InitLock ==
  /\ InitLockFile
  /\ NoRetry
  /\ NoSave
  /\ NoDetect
  /\ NoBuild

\* checkLock: existsSync(lockPath)
AcqExists(p) ==
  /\ pc[p] = "idle"
  /\ pc' = [pc EXCEPT ![p] = IF lockFile.exists THEN "stale_load" ELSE "acq_write"]
  /\ UNCHANGED <<unitVars, runVars, lockVars, seen, err>>

\* isLockStale: lockData = loadLockFile(lockPath)
AcqStaleLoad(p) ==
  /\ pc[p] = "stale_load"
  /\ seen' = [seen EXCEPT ![p] = loadLockFile(lockFile)]
  /\ pc' = [pc EXCEPT ![p] = "stale_probe"]
  /\ UNCHANGED <<unitVars, runVars, lockVars, err>>

\* isLockStale: !lockData or !isProcessRunning(lockData.pid)
AcqStaleProbe(p) ==
  /\ pc[p] = "stale_probe"
  /\ pc' = [pc EXCEPT ![p] = IF isLockStale(seen[p], alive) THEN "chk_unlink" ELSE "acq_load"]
  /\ UNCHANGED <<unitVars, runVars, lockVars, seen, err>>

\* checkLock: unlinkSync(lockPath), errors ignored
AcqStaleUnlink(p) ==
  /\ pc[p] = "chk_unlink"
  /\ lockFile' = NoFile
  /\ pc' = [pc EXCEPT ![p] = "acq_write"]
  /\ UNCHANGED <<unitVars, runVars, alive, now, seen, err>>

\* acquireLock: lockInfo = loadLockFile(lockPath); throw
AcqLoadInfo(p) ==
  /\ pc[p] = "acq_load"
  /\ err' = [err EXCEPT ![p] = loadLockFile(lockFile)]
  /\ pc' = [pc EXCEPT ![p] = "failed"]
  /\ UNCHANGED <<unitVars, runVars, lockVars, seen>>

\* acquireLock: writeFileSync(lockPath, lockData)
AcqWrite(p) ==
  /\ pc[p] = "acq_write"
  /\ lockFile' = LockData(p, now)
  /\ now' = now + 1
  /\ pc' = [pc EXCEPT ![p] = "holding"]
  /\ UNCHANGED <<unitVars, runVars, alive, seen, err>>

\* releaseLock: existsSync(lockPath)
RelExists(p) ==
  /\ pc[p] = "holding"
  /\ pc' = [pc EXCEPT ![p] = IF lockFile.exists THEN "rel_load" ELSE "released"]
  /\ UNCHANGED <<unitVars, runVars, lockVars, seen, err>>

\* releaseLock: lockData = loadLockFile(lockPath); pid test
RelLoad(p) ==
  /\ pc[p] = "rel_load"
  /\ seen' = [seen EXCEPT ![p] = loadLockFile(lockFile)]
  /\ pc' = [pc EXCEPT ![p] =
        IF loadLockFile(lockFile).exists /\ loadLockFile(lockFile).pid = p
        THEN "rel_unlink" ELSE "released"]
  /\ UNCHANGED <<unitVars, runVars, lockVars, err>>

\* releaseLock: unlinkSync(lockPath), errors ignored
RelUnlink(p) ==
  /\ pc[p] = "rel_unlink"
  /\ lockFile' = NoFile
  /\ pc' = [pc EXCEPT ![p] = "released"]
  /\ UNCHANGED <<unitVars, runVars, alive, now, seen, err>>

\* the process is killed (SIGKILL, power loss): no handler runs
Crash(p) ==
  /\ p \in alive
  /\ pc[p] \notin {"idle", "released", "released2", "failed"}
  /\ alive' = alive \ {p}
  /\ pc' = [pc EXCEPT ![p] = "dead"]
  /\ UNCHANGED <<unitVars, runVars, lockFile, now, seen, err>>

NextLock ==
  \E p \in Procs :
    \/ AcqExists(p)
    \/ AcqStaleLoad(p)
    \/ AcqStaleProbe(p)
    \/ AcqStaleUnlink(p)
    \/ AcqLoadInfo(p)
    \/ AcqWrite(p)
    \/ RelExists(p)
    \/ RelLoad(p)
    \/ RelUnlink(p)
    \/ Crash(p)

SpecLock == InitLock /\ [][NextLock]_vars

\* C1: two concurrent acquireLock calls never both return successfully
\* (no two live processes are past acquireLock's write at the same time).
C1_AtMostOneHolder ==
  \A p, q \in Procs :
    p # q => ~(pc[p] = "holding" /\ pc[q] = "holding")

\* C2: the unlink of checkLock's stale branch never removes a lock file
\* whose recorded owner is a live process.
C2_StaleUnlinkSparesLiveOwner ==
  [][\A p \in Procs :
       (pc[p] = "chk_unlink" /\ pc'[p] = "acq_write")
         => ~(lockFile.exists /\ isProcessRunning(lockFile.pid, alive))]_vars

\* ------------------------------------------------------------------------
\* SpecLockSeq: acquireLock / releaseLock, one whole call per step
\* ------------------------------------------------------------------------
\* acquireLock(lockPath) by process p (lock.ts 83-111)
acquireLock(p) ==
  /\ pc[p] = "idle"
  /\ IF checkLock(lockFile, alive)
     THEN /\ err' = [err EXCEPT ![p] = loadLockFile(checkLockFile(lockFile, alive))]
          /\ lockFile' = checkLockFile(lockFile, alive)
          /\ pc' = [pc EXCEPT ![p] = "failed"]
          /\ UNCHANGED now
     ELSE /\ lockFile' = LockData(p, now)
          /\ now' = now + 1
          /\ pc' = [pc EXCEPT ![p] = "holding"]
          /\ UNCHANGED err
  /\ UNCHANGED <<unitVars, runVars, alive, seen>>

\* releaseLock(lockPath) by process p (lock.ts 116-128), first and second call
releaseLock(p) ==
  /\ pc[p] \in {"holding", "released"}
  /\ lockFile' = releaseLockFile(lockFile, p)
  /\ pc' = [pc EXCEPT ![p] = IF pc[p] = "holding" THEN "released" ELSE "released2"]
  /\ UNCHANGED <<unitVars, runVars, alive, now, seen, err>>

NextLockSeq ==
  \E p \in Procs :
    \/ acquireLock(p)
    \/ releaseLock(p)
    \/ Crash(p)

SpecLockSeq == InitLock /\ [][NextLockSeq]_vars

\* C4: acquireLock against a lock file whose recorded owner is alive fails
\* in that very call, the error carries the owner's pid and startedAt, and
\* the lock file is unchanged.
C4_FailFastWithOwner ==
  [][\A p \in Procs :
       (pc[p] = "idle" /\ pc'[p] # "idle"
          /\ lockFile.exists /\ lockFile.pid \in alive)
         => (/\ pc'[p] = "failed"
             /\ err'[p].exists
             /\ err'[p].pid = lockFile.pid
             /\ err'[p].startedAt = lockFile.startedAt
             /\ lockFile' = lockFile)]_vars

C4_Witness ==
  \E p \in Procs :
    /\ pc[p] = "failed"
    /\ err[p].exists /\ err[p].pid \in alive /\ err[p].pid # p
    /\ lockFile = err[p]

\* C5: acquireLock against a lock file whose recorded owner is dead succeeds
\* and leaves the lock file recording the caller.
C5_StaleTakeover ==
  [][\A p \in Procs :
       (pc[p] = "idle" /\ pc'[p] # "idle"
          /\ lockFile.exists /\ lockFile.pid \notin alive)
         => (/\ pc'[p] = "holding"
             /\ lockFile'.exists
             /\ lockFile'.pid = p)]_vars

C5_Witness ==
  \E p, q \in Procs :
    /\ pc[q] = "dead"
    /\ pc[p] = "holding"
    /\ lockFile.exists /\ lockFile.pid = p

\* C6: releaseLock removes the lock file exactly when it records the caller;
\* otherwise the file is untouched, so a second call changes nothing and a
\* lock taken by another process is never removed.
C6_ReleaseOnlyOwn ==
  [][\A p \in Procs :
       (pc[p] \in {"holding", "released"} /\ pc'[p] \in {"released", "released2"}
          /\ pc'[p] # pc[p])
         => (/\ (lockFile.exists /\ lockFile.pid = p) => lockFile' = NoFile
             /\ ~(lockFile.exists /\ lockFile.pid = p) => lockFile' = lockFile
             /\ pc[p] = "released" => lockFile' = lockFile)]_vars

C6_Witness ==
  \E p, q \in Procs :
    /\ p # q
    /\ pc[p] = "released2"
    /\ pc[q] = "holding"
    /\ lockFile.exists /\ lockFile.pid = q

\* ------------------------------------------------------------------------
\* SpecRun: updateCommand, one awaited call or file-system write per step
\* ------------------------------------------------------------------------
\* process id of run r
RunPid(r) == NumProcs + r

\* process id of the current run
Pid == RunPid(run)

\* no run is executing
Inactive == rpc \in {"none", "done", "failed", "killed", "crashed"}

\* the positions at which the run awaits (listeners can run)
Awaiting == rpc \in {"prompt_stale", "prompt_proceed", "call", "sleep"}

\* the process is gone and its memory with it
MemoryGone ==
  /\ optYes' = FALSE
  /\ handlers' = FALSE
  /\ tree' = [p \in AllPaths |-> NoNode]
  /\ rootHash' = 0
  /\ manifest' = createManifest
  /\ staging' = NoStaging
  /\ resuming' = FALSE
  /\ phase' = "files"
  /\ todo' = <<>>
  /\ attempt' = 0
  /\ pendingCount' = 0
  /\ rateLimitHit' = FALSE

\* the operator edits a file (new content) or renames d/a <-> d/b between runs
EditTree ==
  /\ Inactive
  /\ run >= 1 /\ run < MaxRuns
  /\ edits < MaxEdits
  /\ \/ \E f \in Files :
          /\ content[f] > 0
          /\ content' = [content EXCEPT ![f] = edits + 2]
     \/ /\ content["d/a"] > 0 /\ content["d/b"] = 0
        /\ content' = [content EXCEPT !["d/a"] = 0, !["d/b"] = content["d/a"]]
     \/ /\ content["d/b"] > 0 /\ content["d/a"] = 0
        /\ content' = [content EXCEPT !["d/b"] = 0, !["d/a"] = content["d/b"]]
  /\ edits' = edits + 1
  /\ dirty' = TRUE
  /\ editedSinceRun' = TRUE
  /\ UNCHANGED <<unitVars, lockVars, procVars, manifestFile, stagingFile, run, rpc,
                 memVars, histVars, untouched, staleStaged, selected, owed,
                 succeeded, callSeq,
                 writeFailed, prevClean, detected,
                 summarizerCalls>>

\* `codebase-docs update` is started in a new process
StartRun ==
  /\ Inactive
  /\ run < MaxRuns
  /\ run' = run + 1
  /\ alive' = alive \cup {RunPid(run + 1)}
  /\ rpc' = "start"
  /\ optYes' \in BOOLEAN
  /\ prevEnd' = rpc
  /\ sameTree' = ~dirty
  /\ called' = {}
  /\ sigInSleep' = FALSE
  /\ startStaged' = <<>>
  /\ untouched' = ~editedSinceRun
  /\ editedSinceRun' = FALSE
  /\ staleStaged' = <<>>
  /\ owed' = IF selected.known /\ ~selected.forced
             THEN selected.paths \ succeeded ELSE {}
  /\ selected' = NoSelection
  /\ succeeded' = {}
  /\ callSeq' = <<>>
  /\ writeFailed' = FALSE
  /\ prevClean' = /\ rpc = "done"
                  /\ selected.known
                  /\ selected.paths \subseteq succeeded
                  /\ ~stagingFile.exists
  /\ detected' = NotDetected
  /\ summarizerCalls' = Counted(0)
  /\ UNCHANGED <<unitVars, lockFile, now, procVars, content, edits, dirty, manifestFile,
                 stagingFile, handlers, tree, rootHash, manifest, staging,
                 resuming, phase, todo, attempt, pendingCount, rateLimitHit>>

\* updateCommand 335-342: checkLock, exit(1) when another update is active
RunCheckLock ==
  /\ rpc = "start"
  /\ lockFile' = checkLockFile(lockFile, alive)
  /\ IF checkLock(lockFile, alive)
     THEN /\ rpc' = "failed"
          /\ alive' = alive \ {Pid}
          /\ MemoryGone
     ELSE /\ rpc' = "acquire"
          /\ UNCHANGED <<alive, memVars>>
  /\ UNCHANGED <<unitVars, now, procVars, diskVars, run, histVars,
                 auditVars>>

\* updateCommand 344-349: acquireLock, exit(1) when it throws
RunAcquireLock ==
  /\ rpc = "acquire"
  /\ IF checkLock(lockFile, alive)
     THEN /\ rpc' = "failed"
          /\ alive' = alive \ {Pid}
          /\ lockFile' = checkLockFile(lockFile, alive)
          /\ MemoryGone
          /\ UNCHANGED now
     ELSE /\ lockFile' = LockData(Pid, now)
          /\ now' = now + 1
          /\ rpc' = "acquired"
          /\ UNCHANGED <<alive, memVars>>
  /\ UNCHANGED <<unitVars, procVars, diskVars, run, histVars,
                 auditVars>>

\* updateCommand 352: setupLockCleanup registers the listeners
setupLockCleanup ==
  /\ rpc = "acquired"
  /\ handlers' = TRUE
  /\ rpc' = "build"
  /\ UNCHANGED <<unitVars, lockVars, procVars, diskVars, run, optYes, tree, rootHash,
                 manifest, staging, resuming, phase, todo, attempt,
                 pendingCount, rateLimitHit, histVars,
                 auditVars>>

\* updateCommand 359-403: build the tree, load manifest and staging, decide
\* between fresh start, stale staging and resume
RunBuild ==
  /\ rpc = "build"
  /\ tree' = buildCodeMerkleTree(content)
  /\ rootHash' = rootHashOf(content)
  /\ manifest' = manifestFile
  /\ staging' = stagingFile
  /\ IF ~stagingFile.exists
     THEN /\ rpc' = "detect"
          /\ UNCHANGED <<resuming, startStaged, staleStaged>>
     ELSE IF stagingFile.rootHash # rootHashOf(content)
     THEN /\ rpc' = IF optYes THEN "discard" ELSE "prompt_stale"
          /\ staleStaged' = stagingFile.completed
          /\ UNCHANGED <<resuming, startStaged>>
     ELSE /\ resuming' = TRUE
          /\ startStaged' = stagingFile.completed
          /\ UNCHANGED staleStaged
          /\ rpc' = IF Len(stagingFile.completed) > 0 THEN "resume_merge" ELSE "detect"
  /\ UNCHANGED <<unitVars, lockVars, procVars, diskVars, run, optYes, handlers, phase,
                 todo, attempt, pendingCount, rateLimitHit, called, sigInSleep,
                 prevEnd, sameTree, editedSinceRun, untouched, selected,
                 owed, succeeded, callSeq,
                 writeFailed, prevClean, detected,
                 summarizerCalls>>

\* updateCommand 381-389: the operator answers the discard prompt
AnswerStale ==
  /\ rpc = "prompt_stale"
  /\ \E discard \in BOOLEAN :
       rpc' = IF discard THEN "discard" ELSE "finally"
  /\ UNCHANGED <<unitVars, lockVars, procVars, diskVars, run, memVars, histVars,
                 auditVars>>

\* mutant: the stale staging is kept
DiscardStale_KeepsLog ==
  /\ rpc = "discard"
  /\ UNCHANGED <<unitVars, stagingFile, staging>>
  /\ rpc' = "detect"
  /\ dirty' = FALSE
  /\ UNCHANGED <<unitVars, lockVars, procVars, content, edits, manifestFile, run,
                 optYes, handlers, tree, rootHash, manifest, resuming, phase,
                 todo, attempt, pendingCount, rateLimitHit, histVars,
                 auditVars>>

\* updateCommand 391-393: clearStaging, staging = null
DiscardStale ==
  /\ rpc = "discard"
  /\ stagingFile' = NoStaging
  /\ staging' = NoStaging
  /\ rpc' = "detect"
  /\ dirty' = FALSE
  /\ UNCHANGED <<unitVars, lockVars, procVars, content, edits, manifestFile, run,
                 optYes, handlers, tree, rootHash, manifest, resuming, phase,
                 todo, attempt, pendingCount, rateLimitHit, histVars,
                 auditVars>>

\* updateCommand 405-416: merge the completed entries, save the manifest,
\* copy the staged summaries into the tree
ResumeMerge ==
  /\ rpc = "resume_merge"
  /\ manifest' = mergeStaging(manifest, tree, staging)
  /\ manifestFile' = mergeStaging(manifest, tree, staging)
  /\ tree' = MergeEntries(tree, staging.completed)
  /\ rpc' = "detect"
  /\ UNCHANGED <<unitVars, lockVars, procVars, content, edits, dirty, stagingFile, run,
                 optYes, handlers, rootHash, staging, resuming, phase, todo,
                 attempt, pendingCount, rateLimitHit, histVars,
                 auditVars>>

\* updateCommand 483-491: counters and the staging of a fresh run
BeginProcessing ==
  /\ staging' = IF staging.exists THEN staging ELSE createStaging(rootHash)
  /\ pendingCount' = 0
  /\ rateLimitHit' = FALSE
  /\ attempt' = 0
  /\ phase' = "files"
  /\ rpc' = "call"

\* mutant: the completed paths of the resumed staging are not filtered out
filesToProcess_NoFilter(force) ==
  LET changes == IF force THEN forcedChanges(tree) ELSE detectChanges(tree, manifest)
  IN SelectSeq(changes.new \o changes.changed, LAMBDA p : p \in Files)

\* filesToProcess (updateCommand 421-438)
filesToProcess(force) ==
  LET changes == IF force THEN forcedChanges(tree) ELSE detectChanges(tree, manifest)
      cand == SelectSeq(changes.new \o changes.changed, LAMBDA p : p \in Files)
  IN IF staging.exists /\ resuming
     THEN SelectSeq(cand, LAMBDA p : p \notin getCompletedPaths(staging))
     ELSE cand

\* updateCommand 420-476: detect changes, return when nothing is to do,
\* else prompt (neither quiet nor yes) or start processing
Detect ==
  /\ rpc = "detect"
  /\ \E force \in BOOLEAN, quiet \in BOOLEAN :
       /\ tree' = IF force THEN tree ELSE detectChangesTree(tree, manifest)
       /\ detected' =
            LET changes == IF force THEN forcedChanges(tree)
                           ELSE detectChanges(tree, manifest)
            IN [known |-> TRUE, force |-> force, new |-> changes.new,
                changed |-> changes.changed, unchanged |-> changes.unchanged,
                deleted |-> changes.deleted]
       /\ todo' = filesToProcess(force)
       /\ selected' = [known |-> TRUE,
                        forced |-> (force /\ filesToProcess(TRUE) # filesToProcess(FALSE)),
                        paths |-> {filesToProcess(force)[i] :
                                     i \in DOMAIN filesToProcess(force)}]
       /\ IF filesToProcess(force) = <<>>
          THEN /\ rpc' = "clear_return"
               /\ UNCHANGED <<staging, pendingCount, rateLimitHit, attempt, phase>>
          ELSE IF ~quiet /\ ~optYes
          THEN /\ rpc' = "prompt_proceed"
               /\ UNCHANGED <<staging, pendingCount, rateLimitHit, attempt, phase>>
          ELSE BeginProcessing
  /\ optYes' = FALSE
  /\ owed' = {}
  /\ UNCHANGED <<unitVars, lockVars, procVars, diskVars, run, handlers, rootHash,
                 manifest, resuming, histVars, editedSinceRun, untouched,
                 staleStaged, succeeded, callSeq,
                 writeFailed, prevClean, summarizerCalls>>

\* updateCommand 464-475: the operator answers the proceed prompt
AnswerProceed ==
  /\ rpc = "prompt_proceed"
  /\ \E confirmed \in BOOLEAN :
       IF confirmed
       THEN BeginProcessing
       ELSE /\ rpc' = "clear_return"
            /\ UNCHANGED <<staging, pendingCount, rateLimitHit, attempt, phase>>
  /\ UNCHANGED <<unitVars, lockVars, procVars, diskVars, run, optYes, handlers, tree,
                 rootHash, manifest, resuming, todo, histVars,
                 auditVars>>

\* updateCommand 444 and 471: clearStaging, return
ClearReturn ==
  /\ rpc = "clear_return"
  /\ stagingFile' = NoStaging
  /\ rpc' = "finally"
  /\ dirty' = FALSE
  /\ UNCHANGED <<unitVars, lockVars, procVars, content, edits, manifestFile, run,
                 memVars, histVars,
                 auditVars>>

\* the loop goes on: next node, else the directory phase (updateCommand
\* 583-607, evaluated on the tree and manifest as they are then), else the
\* final bundle
Advance(tr, mf) ==
  LET rest == Tail(todo)
      dirs == directoriesToProcess(tr, mf)
  IN /\ attempt' = 0
     /\ IF rest # <<>>
        THEN /\ todo' = rest /\ rpc' = "call" /\ phase' = phase
        ELSE IF phase = "files" /\ ~rateLimitHit /\ dirs # <<>>
        THEN /\ todo' = dirs /\ rpc' = "call" /\ phase' = "dirs"
        ELSE /\ todo' = <<>> /\ rpc' = "final" /\ phase' = phase

\* callSeq once node p is handed to the summarizer (a retry is no new entry)
noteCall(p) ==
  IF callSeq # <<>> /\ callSeq[Len(callSeq)] = p THEN callSeq
  ELSE Append(callSeq, p)

\* the summaries a successful call of this run returns for node p
Summaries(p) == [by |-> run, of |-> tree[p].hash]

\* withRetry: fn() resolves; updateCommand 507-526 / 635-654: the node gets
\* its summaries, the completed entry is staged and saved
AttemptOk ==
  /\ rpc = "call"
  /\ summarizerCalls' = Counted(summarizerCalls + 1)
  /\ LET p == Head(todo)
         tr == [tree EXCEPT ![p].sum = Summaries(p)]
         st == addCompletedEntry(staging, p, tree[p].hash, Summaries(p))
     IN /\ called' = called \cup {p}
        /\ callSeq' = noteCall(p)
        /\ succeeded' = succeeded \cup {p}
        /\ tree' = tr
        /\ staging' = st
        /\ stagingFile' = st
        /\ pendingCount' = pendingCount + 1
        /\ IF pendingCount + 1 >= BundleThreshold
           THEN /\ rpc' = "bundle_manifest"
                /\ UNCHANGED <<todo, attempt, phase>>
           ELSE Advance(tr, manifest)
  /\ dirty' = (resuming /\ dirty)
  /\ UNCHANGED <<unitVars, lockVars, procVars, content, edits, manifestFile, run,
                 optYes, handlers, rootHash, manifest, resuming, rateLimitHit,
                 sigInSleep, startStaged, prevEnd, sameTree, editedSinceRun,
                 untouched, staleStaged, selected, owed,
                 writeFailed, prevClean, detected>>

\* withRetry: fn() rejects with a RateLimitError or a retryable ApiError and
\* attempts are left: calculateDelay, sleep
AttemptRetry ==
  /\ rpc = "call"
  /\ summarizerCalls' = Counted(summarizerCalls + 1)
  /\ attempt < MaxRetries
  /\ called' = called \cup {Head(todo)}
  /\ callSeq' = noteCall(Head(todo))
  /\ rpc' = "sleep"
  /\ UNCHANGED <<unitVars, lockVars, procVars, diskVars, run, memVars, sigInSleep,
                 startStaged, prevEnd, sameTree, editedSinceRun, untouched,
                 staleStaged, selected, owed, succeeded,
                 writeFailed, prevClean, detected>>

\* mutant: the attempt counter is not advanced
Wake_SameAttempt ==
  /\ rpc = "sleep"
  /\ attempt' = attempt
  /\ rpc' = "call"
  /\ UNCHANGED <<unitVars, lockVars, procVars, diskVars, run, optYes, handlers, tree,
                 rootHash, manifest, staging, resuming, phase, todo,
                 pendingCount, rateLimitHit, histVars,
                 auditVars>>

\* withRetry: the sleep is over, next attempt
Wake ==
  /\ rpc = "sleep"
  /\ attempt' = attempt + 1
  /\ rpc' = "call"
  /\ UNCHANGED <<unitVars, lockVars, procVars, diskVars, run, optYes, handlers, tree,
                 rootHash, manifest, staging, resuming, phase, todo,
                 pendingCount, rateLimitHit, histVars,
                 auditVars>>

\* retryCount of the failed entry written for node p (updateCommand 557-558
\* for files, the literal 1 of line 691 for directories)
retryCountFor(p) ==
  IF phase = "files"
  THEN (IF FailedIndex(staging.failed, p) > 0
        THEN staging.failed[FailedIndex(staging.failed, p)].retryCount
        ELSE 0) + 1
  ELSE 1

\* withRetry throws an error that is no rate limit (not retryable, or a
\* retryable ApiError on the last attempt); updateCommand 551-577 / 679-702:
\* the failed entry is staged and saved, the loop continues
AttemptError ==
  /\ rpc = "call"
  /\ summarizerCalls' = Counted(summarizerCalls + 1)
  /\ LET p == Head(todo)
         st == addFailedEntry(staging, p, tree[p].hash, "api error", retryCountFor(p), FALSE)
     IN /\ called' = called \cup {p}
        /\ callSeq' = noteCall(p)
        /\ staging' = st
        /\ stagingFile' = st
        /\ Advance(tree, manifest)
  /\ dirty' = (resuming /\ dirty)
  /\ UNCHANGED <<unitVars, lockVars, procVars, content, edits, manifestFile, run,
                 optYes, handlers, tree, rootHash, manifest, resuming,
                 pendingCount, rateLimitHit, sigInSleep, startStaged, prevEnd,
                 sameTree, editedSinceRun, untouched, staleStaged, selected,
                 owed, succeeded,
                 writeFailed, prevClean, detected>>

\* mutant: the loop is not left after a rate limit
AttemptRateLimit_Continues ==
  /\ rpc = "call"
  /\ summarizerCalls' = Counted(summarizerCalls + 1)
  /\ attempt >= MaxRetries
  /\ LET p == Head(todo)
         st == addFailedEntry(staging, p, tree[p].hash, "rate limit", retryCountFor(p), TRUE)
     IN /\ called' = called \cup {p}
        /\ callSeq' = noteCall(p)
        /\ staging' = st
        /\ stagingFile' = st
  /\ rateLimitHit' = TRUE
  /\ Advance(tree, manifest)
  /\ dirty' = (resuming /\ dirty)
  /\ UNCHANGED <<unitVars, lockVars, procVars, content, edits, manifestFile, run,
                 optYes, handlers, tree, rootHash, manifest, resuming,
                 pendingCount, sigInSleep, startStaged, prevEnd,
                 sameTree, editedSinceRun, untouched, staleStaged, selected,
                 owed, succeeded,
                 writeFailed, prevClean, detected>>

\* withRetry throws the RateLimitError of the last attempt; updateCommand
\* 551-574 / 679-699: the failed entry is staged and saved, the loop is left
AttemptRateLimit ==
  /\ rpc = "call"
  /\ summarizerCalls' = Counted(summarizerCalls + 1)
  /\ attempt >= MaxRetries
  /\ LET p == Head(todo)
         st == addFailedEntry(staging, p, tree[p].hash, "rate limit", retryCountFor(p), TRUE)
     IN /\ called' = called \cup {p}
        /\ callSeq' = noteCall(p)
        /\ staging' = st
        /\ stagingFile' = st
  /\ rateLimitHit' = TRUE
  /\ rpc' = "final"
  /\ dirty' = (resuming /\ dirty)
  /\ UNCHANGED <<unitVars, lockVars, procVars, content, edits, manifestFile, run,
                 optYes, handlers, tree, rootHash, manifest, resuming, phase,
                 todo, attempt, pendingCount, sigInSleep, startStaged, prevEnd,
                 sameTree, editedSinceRun, untouched, staleStaged, selected,
                 owed, succeeded,
                 writeFailed, prevClean, detected>>

\* updateCommand 540-542 / 668-670: periodic bundle, the manifest is saved
BundleManifest ==
  /\ rpc = "bundle_manifest"
  /\ manifest' = mergeStaging(manifest, tree, staging)
  /\ manifestFile' = mergeStaging(manifest, tree, staging)
  /\ rpc' = "bundle_staging"
  /\ UNCHANGED <<unitVars, lockVars, procVars, content, edits, dirty, stagingFile, run,
                 optYes, handlers, tree, rootHash, staging, resuming, phase,
                 todo, attempt, pendingCount, rateLimitHit, histVars,
                 auditVars>>

BundleStaging_KeepsCompleted ==
  /\ rpc = "bundle_staging"
  /\ staging' = staging
  /\ stagingFile' = staging
  /\ pendingCount' = 0
  /\ Advance(tree, manifest)
  /\ dirty' = FALSE
  /\ UNCHANGED <<unitVars, lockVars, procVars, content, edits, manifestFile, run,
                 optYes, handlers, tree, rootHash, manifest, resuming,
                 rateLimitHit, histVars,
                 auditVars>>

\* updateCommand 544-549 / 672-677: the staging is reset (failed entries
\* kept) and saved
BundleStaging ==
  /\ rpc = "bundle_staging"
  /\ staging' = [createStaging(rootHash) EXCEPT !.failed = staging.failed]
  /\ stagingFile' = [createStaging(rootHash) EXCEPT !.failed = staging.failed]
  /\ pendingCount' = 0
  /\ Advance(tree, manifest)
  /\ dirty' = FALSE
  /\ UNCHANGED <<unitVars, lockVars, procVars, content, edits, manifestFile, run,
                 optYes, handlers, tree, rootHash, manifest, resuming,
                 rateLimitHit, histVars,
                 auditVars>>

FinalMerge_Skipped ==
  /\ rpc = "final"
  /\ UNCHANGED <<unitVars, manifest, manifestFile>>
  /\ rpc' = "final_clear"
  /\ UNCHANGED <<unitVars, lockVars, procVars, content, edits, dirty, stagingFile, run,
                 optYes, handlers, tree, rootHash, staging, resuming, phase,
                 todo, attempt, pendingCount, rateLimitHit, histVars,
                 auditVars>>

\* updateCommand 707-715: final bundle
FinalMerge ==
  /\ rpc = "final"
  /\ IF Len(staging.completed) > 0
     THEN /\ manifest' = mergeStaging(manifest, tree, staging)
          /\ manifestFile' = mergeStaging(manifest, tree, staging)
     ELSE UNCHANGED <<manifest, manifestFile>>
  /\ rpc' = "final_clear"
  /\ UNCHANGED <<unitVars, lockVars, procVars, content, edits, dirty, stagingFile, run,
                 optYes, handlers, tree, rootHash, staging, resuming, phase,
                 todo, attempt, pendingCount, rateLimitHit, histVars,
                 auditVars>>

\* updateCommand 717-720: the staging file is cleared when nothing failed
FinalClear ==
  /\ rpc = "final_clear"
  /\ stagingFile' = IF ~rateLimitHit /\ Len(staging.failed) = 0
                    THEN NoStaging ELSE stagingFile
  /\ rpc' = "finally"
  /\ dirty' = (dirty /\ (rateLimitHit \/ Len(staging.failed) > 0))
  /\ UNCHANGED <<unitVars, lockVars, procVars, content, edits, manifestFile, run,
                 memVars, histVars,
                 auditVars>>

\* updateCommand 853: removeCleanupHandler()
removeCleanupHandler ==
  /\ rpc = "finally"
  /\ handlers' = FALSE
  /\ rpc' = "release"
  /\ UNCHANGED <<unitVars, lockVars, procVars, diskVars, run, optYes, tree, rootHash,
                 manifest, staging, resuming, phase, todo, attempt,
                 pendingCount, rateLimitHit, histVars,
                 auditVars>>

\* updateCommand 854: releaseLock(lockPath); the command returns and the
\* process exits
FinallyRelease ==
  /\ rpc = "release"
  /\ lockFile' = releaseLockFile(lockFile, Pid)
  /\ rpc' = "done"
  /\ alive' = alive \ {Pid}
  /\ MemoryGone
  /\ UNCHANGED <<unitVars, now, procVars, diskVars, run, histVars,
                 auditVars>>

\* SIGINT or SIGTERM while the listeners are registered: cleanup() calls
\* releaseLock; a signal with a listener does not end the process
SignalHandled ==
  /\ handlers
  /\ Awaiting
  /\ lockFile' = releaseLockFile(lockFile, Pid)
  /\ sigInSleep' = (sigInSleep \/ rpc = "sleep")
  /\ UNCHANGED <<unitVars, alive, now, procVars, diskVars, run, rpc, memVars, called,
                 startStaged, prevEnd, sameTree,
                 auditVars>>

\* SIGINT or SIGTERM while no listener is registered: the process is ended
\* by the default action, no JavaScript runs
SignalDefault ==
  /\ ~handlers
  /\ rpc \in {"start", "acquire", "acquired", "release"}
  /\ rpc' = "killed"
  /\ alive' = alive \ {Pid}
  /\ MemoryGone
  /\ UNCHANGED <<unitVars, lockFile, now, procVars, diskVars, run, histVars,
                 auditVars>>

\* the process is killed or the machine stops: nothing runs
CrashRun ==
  /\ ~Inactive
  /\ rpc' = "crashed"
  /\ alive' = alive \ {Pid}
  /\ MemoryGone
  /\ UNCHANGED <<unitVars, lockFile, now, procVars, diskVars, run, histVars,
                 auditVars>>

NextRun ==
  \/ EditTree
  \/ StartRun
  \/ RunCheckLock
  \/ RunAcquireLock
  \/ setupLockCleanup
  \/ RunBuild
  \/ AnswerStale
  \/ DiscardStale
  \/ ResumeMerge
  \/ Detect
  \/ AnswerProceed
  \/ ClearReturn
  \/ AttemptOk
  \/ AttemptRetry
  \/ Wake
  \/ AttemptError
  \/ AttemptRateLimit
  \/ BundleManifest
  \/ BundleStaging
  \/ FinalMerge
  \/ FinalClear
  \/ removeCleanupHandler
  \/ FinallyRelease
  \/ SignalHandled
  \/ SignalDefault
  \/ CrashRun

SpecRun == InitLock /\ [][NextRun]_vars

\* the runs without SIGINT/SIGTERM: a handled signal only touches the lock
\* file, an unhandled one ends the process as CrashRun does
NextRunNoSignal ==
  \/ EditTree
  \/ StartRun
  \/ RunCheckLock
  \/ RunAcquireLock
  \/ setupLockCleanup
  \/ RunBuild
  \/ AnswerStale
  \/ DiscardStale
  \/ ResumeMerge
  \/ Detect
  \/ AnswerProceed
  \/ ClearReturn
  \/ AttemptOk
  \/ AttemptRetry
  \/ Wake
  \/ AttemptError
  \/ AttemptRateLimit
  \/ BundleManifest
  \/ BundleStaging
  \/ FinalMerge
  \/ FinalClear
  \/ removeCleanupHandler
  \/ FinallyRelease
  \/ CrashRun

SpecRunNoSignal == InitLock /\ [][NextRunNoSignal]_vars

\* ------------------------------------------------------------------------
\* SpecRunIO: the runs with saveStaging / saveManifest able to throw (the
\* file is left as it was)
\* ------------------------------------------------------------------------
\* the catch of the loop (updateCommand 551-578 / 679-703) run for a write
\* error thrown inside the try, with st the staging in memory, tr the tree and
\* mf the manifest at the throw: the failed entry is added and saved, the
\* loop goes on; when that save throws too the error leaves the loop
CatchWriteError(st, tr, mf) ==
  LET p == Head(todo)
      st2 == addFailedEntry(st, p, tree[p].hash, "save failed",
                            retryCountFor(p), FALSE)
  IN /\ staging' = st2
     /\ writeFailed' = TRUE
     /\ \E saved \in BOOLEAN :
          IF saved
          THEN /\ stagingFile' = st2
               /\ dirty' = (resuming /\ dirty)
               /\ Advance(tr, mf)
          ELSE /\ rpc' = "finally"
               /\ UNCHANGED <<stagingFile, dirty, todo, attempt, phase>>

\* updateCommand 525 / 653: the summarizer call resolved, saveStaging throws
SaveStagingThrows ==
  /\ rpc = "call"
  /\ summarizerCalls' = Counted(summarizerCalls + 1)
  /\ LET p == Head(todo)
         tr == [tree EXCEPT ![p].sum = Summaries(p)]
         st == addCompletedEntry(staging, p, tree[p].hash, Summaries(p))
     IN /\ called' = called \cup {p}
        /\ callSeq' = noteCall(p)
        /\ tree' = tr
        /\ CatchWriteError(st, tr, manifest)
  /\ UNCHANGED <<unitVars, lockVars, procVars, content, edits, manifestFile, run,
                 optYes, handlers, rootHash, manifest, resuming, pendingCount,
                 rateLimitHit, sigInSleep, startStaged, prevEnd, sameTree,
                 editedSinceRun, untouched, staleStaged, selected, owed,
                 succeeded, prevClean, detected>>

\* updateCommand 542 / 670: saveManifest of the periodic bundle throws
BundleManifestThrows ==
  /\ rpc = "bundle_manifest"
  /\ manifest' = mergeStaging(manifest, tree, staging)
  /\ CatchWriteError(staging, tree, mergeStaging(manifest, tree, staging))
  /\ UNCHANGED <<unitVars, lockVars, procVars, content, edits, manifestFile, run,
                 optYes, handlers, tree, rootHash, resuming, pendingCount,
                 rateLimitHit, histVars, editedSinceRun, untouched,
                 staleStaged, selected, owed, succeeded, callSeq, prevClean,
                 detected, summarizerCalls>>

\* updateCommand 548 / 676: saveStaging of the periodic bundle throws
BundleStagingThrows ==
  /\ rpc = "bundle_staging"
  /\ CatchWriteError([createStaging(rootHash) EXCEPT !.failed = staging.failed],
                     tree, manifest)
  /\ UNCHANGED <<unitVars, lockVars, procVars, content, edits, manifestFile, run,
                 optYes, handlers, tree, rootHash, manifest, resuming,
                 pendingCount, rateLimitHit, histVars, editedSinceRun,
                 untouched, staleStaged, selected, owed, succeeded, callSeq,
                 prevClean, detected,
                 summarizerCalls>>

\* updateCommand 569 / 694: withRetry threw, saveStaging of the catch throws
\* and the error leaves the loop
HandlerSaveThrows ==
  /\ rpc = "call"
  /\ summarizerCalls' = Counted(summarizerCalls + 1)
  /\ \E isRateLimited \in BOOLEAN :
       /\ isRateLimited => attempt >= MaxRetries
       /\ staging' = addFailedEntry(staging, Head(todo), tree[Head(todo)].hash,
                                    IF isRateLimited THEN "rate limit" ELSE "api error",
                                    retryCountFor(Head(todo)), isRateLimited)
  /\ called' = called \cup {Head(todo)}
  /\ callSeq' = noteCall(Head(todo))
  /\ writeFailed' = TRUE
  /\ rpc' = "finally"
  /\ UNCHANGED <<unitVars, lockVars, procVars, diskVars, run, optYes, handlers, tree,
                 rootHash, manifest, resuming, phase, todo, attempt,
                 pendingCount, rateLimitHit, sigInSleep, startStaged, prevEnd,
                 sameTree, editedSinceRun, untouched, staleStaged, selected,
                 owed, succeeded, prevClean, detected>>

\* updateCommand 407 / 714: saveManifest of the resume merge or of the final
\* bundle throws and the error leaves the try block
MergeSaveThrows ==
  /\ \/ rpc = "resume_merge"
     \/ rpc = "final" /\ Len(staging.completed) > 0
  /\ manifest' = mergeStaging(manifest, tree, staging)
  /\ writeFailed' = TRUE
  /\ rpc' = "finally"
  /\ UNCHANGED <<unitVars, lockVars, procVars, diskVars, run, optYes, handlers, tree,
                 rootHash, staging, resuming, phase, todo, attempt,
                 pendingCount, rateLimitHit, histVars, editedSinceRun,
                 untouched, staleStaged, selected, owed, succeeded, callSeq,
                 prevClean, detected,
                 summarizerCalls>>

NextRunIO ==
  \/ NextRunNoSignal
  \/ SaveStagingThrows
  \/ BundleManifestThrows
  \/ BundleStagingThrows
  \/ HandlerSaveThrows
  \/ MergeSaveThrows

SpecRunIO == InitLock /\ [][NextRunIO]_vars

\* ------------------------------------------------------------------------
\* SpecRunEdit: the runs without signals on a project that may hold d/b with
\* other bytes than d/a, with two more edits between runs: the contents of
\* d/a and d/b are exchanged, a file is deleted
\* ------------------------------------------------------------------------
\* the project right after `init`: files d/a and d/e/f, with or without d/b
InitEdit ==
  /\ lockFile = NoFile
  /\ alive = Procs
  /\ now = 1
  /\ pc = [p \in Procs |-> "idle"]
  /\ seen = [p \in Procs |-> NoFile]
  /\ err = [p \in Procs |-> NoFile]
  /\ \E b \in {0, 2} :
       content = [f \in Files |-> IF f = "d/b" THEN b ELSE 1]
  /\ stagingFile = NoStaging
  /\ dirty = FALSE
  /\ NoRunYet
  /\ summarizerCalls = -1
  /\ NoRetry
  /\ NoSave
  /\ NoDetect
  /\ NoBuild

\* between runs the operator exchanges the contents of d/a and d/b
SwapFiles ==
  /\ Inactive
  /\ run >= 1 /\ run < MaxRuns
  /\ edits < MaxEdits
  /\ content["d/a"] > 0 /\ content["d/b"] > 0
  /\ content["d/a"] # content["d/b"]
  /\ content' = [content EXCEPT !["d/a"] = content["d/b"],
                                !["d/b"] = content["d/a"]]
  /\ edits' = edits + 1
  /\ dirty' = TRUE
  /\ editedSinceRun' = TRUE
  /\ UNCHANGED <<unitVars, lockVars, procVars, manifestFile, stagingFile, run, rpc,
                 memVars, histVars, untouched, staleStaged, selected, owed,
                 succeeded, callSeq, writeFailed, prevClean, detected,
                 summarizerCalls>>

\* between runs the operator deletes a file
DeleteFile ==
  /\ Inactive
  /\ run >= 1 /\ run < MaxRuns
  /\ edits < MaxEdits
  /\ \E f \in Files :
       /\ content[f] > 0
       /\ content' = [content EXCEPT ![f] = 0]
  /\ edits' = edits + 1
  /\ dirty' = TRUE
  /\ editedSinceRun' = TRUE
  /\ UNCHANGED <<unitVars, lockVars, procVars, manifestFile, stagingFile, run, rpc,
                 memVars, histVars, untouched, staleStaged, selected, owed,
                 succeeded, callSeq, writeFailed, prevClean, detected,
                 summarizerCalls>>

NextRunEdit ==
  \/ NextRunNoSignal
  \/ SwapFiles
  \/ DeleteFile

SpecRunEdit == InitEdit /\ [][NextRunEdit]_vars

\* ------------------------------------------------------------------------
\* SpecRunLive: the runs whose process is neither killed nor signalled, on a
\* tree that is not edited between them; the summarizer calls are counted,
\* every prompt is answered, every summarizer call resolves or rejects and
\* every sleep ends
\* ------------------------------------------------------------------------
\* the staging log an interrupted run left when d/a had other bytes
StaleLog ==
  LET old == [f \in Files |-> IF f = "d/a" THEN 2 ELSE IF f = "d/b" THEN 0 ELSE 1]
  IN addCompletedEntry(createStaging(rootHashOf(old)), "d/a",
                       computeFileHash(2), [by |-> 0, of |-> computeFileHash(2)])

\* the project with files d/a and d/e/f and an empty manifest, without a
\* staging log or with the stale one
InitLive ==
  /\ lockFile = NoFile
  /\ alive = Procs
  /\ now = 1
  /\ pc = [p \in Procs |-> "idle"]
  /\ seen = [p \in Procs |-> NoFile]
  /\ err = [p \in Procs |-> NoFile]
  /\ content = [f \in Files |-> IF f = "d/b" THEN 0 ELSE 1]
  /\ \E stale \in BOOLEAN :
       /\ stagingFile = IF stale THEN StaleLog ELSE NoStaging
       /\ dirty = stale
  /\ NoRunYet
  /\ summarizerCalls = 0
  /\ NoRetry
  /\ NoSave
  /\ NoDetect
  /\ NoBuild

\* a step of updateCommand
RunStep ==
  \/ RunCheckLock
  \/ RunAcquireLock
  \/ setupLockCleanup
  \/ RunBuild
  \/ AnswerStale
  \/ DiscardStale
  \/ ResumeMerge
  \/ Detect
  \/ AnswerProceed
  \/ ClearReturn
  \/ AttemptOk
  \/ AttemptRetry
  \/ Wake
  \/ AttemptError
  \/ AttemptRateLimit
  \/ BundleManifest
  \/ BundleStaging
  \/ FinalMerge
  \/ FinalClear
  \/ removeCleanupHandler
  \/ FinallyRelease

NextRunLive ==
  \/ StartRun
  \/ RunStep

\* the run leaves position "build": in SpecRunLive this is a RunBuild step,
\* which is enabled exactly at that position
LeaveBuild ==
  /\ rpc = "build"
  /\ rpc' \in {"detect", "discard", "prompt_stale", "resume_merge"}

\* every enabled step of the run is eventually taken
RunFairness ==
  /\ WF_vars(RunCheckLock)
  /\ WF_vars(RunAcquireLock)
  /\ WF_vars(setupLockCleanup)
  /\ WF_rpc(LeaveBuild)
  /\ WF_vars(AnswerStale)
  /\ WF_vars(DiscardStale)
  /\ WF_vars(ResumeMerge)
  /\ WF_vars(Detect)
  /\ WF_vars(AnswerProceed)
  /\ WF_vars(ClearReturn)
  /\ WF_vars(AttemptOk)
  /\ WF_vars(AttemptRetry)
  /\ WF_vars(Wake)
  /\ WF_vars(AttemptError)
  /\ WF_vars(AttemptRateLimit)
  /\ WF_vars(BundleManifest)
  /\ WF_vars(BundleStaging)
  /\ WF_vars(FinalMerge)
  /\ WF_vars(FinalClear)
  /\ WF_vars(removeCleanupHandler)
  /\ WF_vars(FinallyRelease)

SpecRunLive == InitLive /\ [][NextRunLive]_vars /\ RunFairness

\* ------------------------------------------------------------------------
\* SpecRetry: one call of withRetry(fn, options); the k-th invocation of fn
\* resolves with the value k or rejects with an error of ErrorsOf(k)
\* ------------------------------------------------------------------------
\* withRetry is entered: opts, attempt = 0
InitRetry ==
  /\ InitLockFile
  /\ NoSave
  /\ NoDetect
  /\ NoBuild
  /\ opts \in RetryOptions
  /\ wrPc = "call"
  /\ wrAttempt = 0
  /\ lastError = NoError
  /\ delay = 0
  /\ fnCalls = 0
  /\ sleeps = 0
  /\ raised = <<>>
  /\ wrResult = [kind |-> "none", value |-> 0, error |-> NoError]

\* withRetry 253: return await fn()
WrReturn ==
  /\ wrPc = "call"
  /\ fnCalls' = fnCalls + 1
  /\ wrResult' = [kind |-> "value", value |-> fnCalls + 1, error |-> NoError]
  /\ wrPc' = "returned"
  /\ UNCHANGED <<lockVars, procVars, runVars, buildVars, saveVars, detectVars, opts, wrAttempt, lastError,
                 delay, sleeps, raised>>

WrCatch_ThrowsFirst ==
  /\ wrPc = "call"
  /\ fnCalls' = fnCalls + 1
  /\ \E error \in ErrorsOf(fnCalls + 1) :
       /\ lastError' = error
       /\ raised' = Append(raised, error)
       /\ IF ~shouldRetry(error) \/ wrAttempt >= opts.maxRetries
          THEN /\ wrResult' = [kind |-> "error", value |-> 0,
                               error |-> Append(raised, error)[1]]
               /\ wrPc' = "thrown"
               /\ UNCHANGED delay
          ELSE /\ \E jitter \in Jitters(wrAttempt, opts) :
                    delay' = calculateDelay(wrAttempt, opts, error, jitter)
               /\ wrPc' = "sleep"
               /\ UNCHANGED wrResult
  /\ UNCHANGED <<lockVars, procVars, runVars, buildVars, saveVars, detectVars, opts, wrAttempt, sleeps>>

\* withRetry 254-270: fn() rejects; the catch block throws the error or
\* computes the delay and sleeps
WrCatch ==
  /\ wrPc = "call"
  /\ fnCalls' = fnCalls + 1
  /\ \E error \in ErrorsOf(fnCalls + 1) :
       /\ lastError' = error
       /\ raised' = Append(raised, error)
       /\ IF ~shouldRetry(error) \/ wrAttempt >= opts.maxRetries
          THEN /\ wrResult' = [kind |-> "error", value |-> 0, error |-> error]
               /\ wrPc' = "thrown"
               /\ UNCHANGED delay
          ELSE /\ \E jitter \in Jitters(wrAttempt, opts) :
                    delay' = calculateDelay(wrAttempt, opts, error, jitter)
               /\ wrPc' = "sleep"
               /\ UNCHANGED wrResult
  /\ UNCHANGED <<lockVars, procVars, runVars, buildVars, saveVars, detectVars, opts, wrAttempt, sleeps>>

WrWake_SkipsAttempt ==
  /\ wrPc = "sleep"
  /\ sleeps' = sleeps + 1
  /\ wrAttempt' = wrAttempt + 2
  /\ wrPc' = "call"
  /\ UNCHANGED <<lockVars, procVars, runVars, buildVars, saveVars, detectVars, opts, lastError, delay,
                 fnCalls, raised, wrResult>>

\* withRetry 269 and 251: the sleep is over, attempt++
WrWake ==
  /\ wrPc = "sleep"
  /\ sleeps' = sleeps + 1
  /\ wrAttempt' = wrAttempt + 1
  /\ wrPc' = "call"
  /\ UNCHANGED <<lockVars, procVars, runVars, buildVars, saveVars, detectVars, opts, lastError, delay,
                 fnCalls, raised, wrResult>>

NextRetry ==
  \/ WrReturn
  \/ WrCatch
  \/ WrWake

SpecRetry == InitRetry /\ [][NextRetry]_vars

\* ------------------------------------------------------------------------
\* SpecSave: calls of saveStaging and saveManifest one after the other, one
\* file-system call per step, with a crash of the process at any step
\* ------------------------------------------------------------------------
\* saveStaging is called with document saves + 1 (the directory exists)
SaveStagingCall ==
  /\ svPc = "idle"
  /\ saves < MaxSaves
  /\ saves' = saves + 1
  /\ svDoc' = saves + 1
  /\ svCrashed' = FALSE
  /\ stCall' = [old |-> loadStaging(fs), new |-> saves + 1]
  /\ svPc' = "st_open"
  /\ UNCHANGED <<lockVars, procVars, runVars, buildVars, retryVars, detectVars, fs, stReturned, mfCall>>

\* saveStaging 191: writeFileSync(tempPath, content) opens the file
StOpen ==
  /\ svPc = "st_open"
  /\ fs' = openTruncate(fs, tempPath)
  /\ svPc' = "st_write"
  /\ UNCHANGED <<lockVars, procVars, runVars, buildVars, retryVars, detectVars, svDoc, saves,
                 svCrashed, stCall, stReturned, mfCall>>

\* saveStaging 191: writeFileSync writes the content, chunk by chunk
StWrite ==
  /\ svPc = "st_write"
  /\ fs' = writeChunk(fs, tempPath, Stringify(svDoc))
  /\ svPc' = IF Len(fs'[tempPath].text) = Len(Stringify(svDoc))
             THEN "st_rename" ELSE "st_write"
  /\ UNCHANGED <<lockVars, procVars, runVars, buildVars, retryVars, detectVars, svDoc, saves,
                 svCrashed, stCall, stReturned, mfCall>>

\* saveStaging 194: renameSync(tempPath, stagingPath)
StRename ==
  /\ svPc = "st_rename"
  /\ fs' = renameSync(fs, tempPath, stagingPath)
  /\ svPc' = "st_return"
  /\ UNCHANGED <<lockVars, procVars, runVars, buildVars, retryVars, detectVars, svDoc, saves,
                 svCrashed, stCall, stReturned, mfCall>>

\* saveStaging returns
StReturn ==
  /\ svPc = "st_return"
  /\ stReturned' = stReturned + 1
  /\ svPc' = "idle"
  /\ UNCHANGED <<lockVars, procVars, runVars, buildVars, retryVars, detectVars, fs, svDoc, saves,
                 svCrashed, stCall, mfCall>>

\* saveManifest is called with document saves + 1 (the directory exists)
SaveManifestCall ==
  /\ svPc = "idle"
  /\ saves < MaxSaves
  /\ saves' = saves + 1
  /\ svDoc' = saves + 1
  /\ svCrashed' = FALSE
  /\ mfCall' = [old |-> loadManifest(fs), new |-> saves + 1]
  /\ svPc' = "mf_open"
  /\ UNCHANGED <<lockVars, procVars, runVars, buildVars, retryVars, detectVars, fs, stCall, stReturned>>

\* saveManifest 34: writeFileSync(manifestPath, content) opens the file
MfOpen ==
  /\ svPc = "mf_open"
  /\ fs' = openTruncate(fs, manifestPath)
  /\ svPc' = "mf_write"
  /\ UNCHANGED <<lockVars, procVars, runVars, buildVars, retryVars, detectVars, svDoc, saves,
                 svCrashed, stCall, stReturned, mfCall>>

\* saveManifest 34: writeFileSync writes the content, chunk by chunk
MfWrite ==
  /\ svPc = "mf_write"
  /\ fs' = writeChunk(fs, manifestPath, Stringify(svDoc))
  /\ svPc' = IF Len(fs'[manifestPath].text) = Len(Stringify(svDoc))
             THEN "mf_return" ELSE "mf_write"
  /\ UNCHANGED <<lockVars, procVars, runVars, buildVars, retryVars, detectVars, svDoc, saves,
                 svCrashed, stCall, stReturned, mfCall>>

\* saveManifest returns
MfReturn ==
  /\ svPc = "mf_return"
  /\ svPc' = "idle"
  /\ UNCHANGED <<lockVars, procVars, runVars, buildVars, retryVars, detectVars, fs, svDoc, saves,
                 svCrashed, stCall, stReturned, mfCall>>

\* the process ends inside saveStaging or saveManifest; the files stay as
\* they are and the next process starts outside
CrashSave ==
  /\ svPc # "idle"
  /\ svCrashed' = TRUE
  /\ svPc' = "idle"
  /\ UNCHANGED <<lockVars, procVars, runVars, buildVars, retryVars, detectVars, fs, svDoc, saves,
                 stCall, stReturned, mfCall>>

NextSave ==
  \/ SaveStagingCall
  \/ StOpen
  \/ StWrite
  \/ StRename
  \/ StReturn
  \/ SaveManifestCall
  \/ MfOpen
  \/ MfWrite
  \/ MfReturn
  \/ CrashSave

SpecSave == InitLock /\ [][NextSave]_vars

\* ------------------------------------------------------------------------
\* SpecDetect: one call of detectChanges(currentTree, manifest)
\* ------------------------------------------------------------------------
\* the arguments: a tree and a manifest, or null for the manifest
InitDetect ==
  /\ InitLockFile
  /\ NoRetry
  /\ NoSave
  /\ NoBuild
  /\ dcTree \in NodeMaps(CurrentNodes)
  /\ dcBefore = dcTree
  /\ \E loaded \in BOOLEAN :
       \E nodes \in (IF loaded THEN NodeMaps(StoredNodes)
                      ELSE {[p \in AllPaths |-> NoTimedNode]}) :
         dcManifest = [loaded |-> loaded,
                       manifest |-> [codeRootHash |-> 0, nodes |-> nodes]]
  /\ dcResult = NoChanges

\* detectChanges 97-101: manifest is null
DetectNoManifest ==
  /\ ~dcResult.done
  /\ ~dcManifest.loaded
  /\ dcResult' = Returned(detectChangesNoManifest(dcTree))
  /\ UNCHANGED <<lockVars, procVars, runVars, buildVars, retryVars, saveVars, dcTree,
                 dcManifest, dcBefore>>

\* detectChanges 104-131: the loops over the tree and over the manifest
DetectWithManifest ==
  /\ ~dcResult.done
  /\ dcManifest.loaded
  /\ dcResult' = Returned(detectChanges(dcTree, dcManifest.manifest))
  /\ dcTree' = detectChangesTree(dcTree, dcManifest.manifest)
  /\ UNCHANGED <<lockVars, procVars, runVars, buildVars, retryVars, saveVars,
                 dcManifest, dcBefore>>

NextDetect ==
  \/ DetectNoManifest
  \/ DetectWithManifest

SpecDetect == InitDetect /\ [][NextDetect]_vars

\* ------------------------------------------------------------------------
\* SpecBuild: buildCodeMerkleTree(rootPath, excludePatterns) on a directory
\* whose files are edited between the calls
\* ------------------------------------------------------------------------
\* the arguments: the files on disk and the exclude patterns of the configuration
InitBuild ==
  /\ InitLockFile
  /\ NoRetry
  /\ NoSave
  /\ NoDetect
  /\ diskBytes \in [TreeFiles -> Bytes]
  /\ cfgExclude \in SUBSET ExcludeRules
  /\ readdirOrder = SortedOrder
  /\ builtTree = NotBuilt
  /\ prevTree = NotBuilt
  /\ editedLeaf = Root

\* buildCodeMerkleTree: readdirSync returns the entries in an order of its own
BuildTree ==
  /\ ~builtTree.built
  /\ \E order \in Enumerations :
       /\ readdirOrder' = order
       /\ builtTree' = buildMerkleTree(diskBytes, cfgExclude, order)
  /\ UNCHANGED <<lockVars, procVars, runVars, retryVars, saveVars, detectVars,
                 diskBytes, cfgExclude, prevTree, editedLeaf>>

\* the user changes the bytes of one file after a build
EditLeaf ==
  /\ builtTree.built
  /\ \E f \in TreeFiles : \E v \in Bytes \ {diskBytes[f]} :
       /\ diskBytes' = [diskBytes EXCEPT ![f] = v]
       /\ editedLeaf' = f
  /\ prevTree' = builtTree
  /\ builtTree' = NotBuilt
  /\ readdirOrder' = SortedOrder
  /\ UNCHANGED <<lockVars, procVars, runVars, retryVars, saveVars, detectVars,
                 cfgExclude>>

NextBuild ==
  \/ BuildTree
  \/ EditLeaf

SpecBuild == InitBuild /\ [][NextBuild]_vars

\* the step is an attempt of the summarizer call under withRetry
AttemptStep ==
  /\ rpc = "call"
  /\ rpc' # "crashed"
  /\ (rpc' # "call" \/ todo' # todo)

\* entry e of a staging log is in the saved manifest: the node of its path
\* carries the staged summaries
InManifestFile(e) ==
  /\ manifestFile.nodes[e.path].present
  /\ manifestFile.nodes[e.path].sum = e.summaries

\* C3: every step of a run that writes or deletes the manifest file or the
\* staging file is taken while the lock file exists and records the run's
\* own process id.
C3_WritesUnderOwnLock ==
  [][(manifestFile' # manifestFile \/ stagingFile' # stagingFile)
       => (lockFile.exists /\ lockFile.pid = Pid)]_vars

\* C7: once a run that acquired the lock has ended (returned, or was ended
\* by SIGINT/SIGTERM), the lock file does not record that run as owner.
C7_EndedRunReleased ==
  rpc \in {"done", "killed"} => ~(lockFile.exists /\ lockFile.pid = Pid)

\* C8: after a signal that arrived during a backoff sleep, the run makes no
\* further attempt and writes neither the manifest nor the staging file.
C8_SignalInSleepStopsRun ==
  [][sigInSleep
       => (/\ ~AttemptStep
           /\ manifestFile' = manifestFile
           /\ stagingFile' = stagingFile)]_vars

InManifest(mf, e) ==
  /\ mf.nodes[e.path].present
  /\ mf.nodes[e.path].sum = e.summaries

\* the run found a stale staging log with completed entries
FoundStale == ~Inactive /\ Len(staleStaged) > 0

\* the operator declined to discard the stale log: the run is in its finally
\* block without having computed filesToProcess
DeclinedStale ==
  FoundStale /\ rpc \in {"finally", "release"} /\ ~selected.known

\* C11: in a run that found a stale staging log, no step puts a completed
\* entry of that log into the saved manifest; when the first summarizer call
\* starts the staging file is deleted; when the operator declined, the run
\* reaches its end with the manifest file and the staging file as they were.
C11_StaleNeverMerged ==
  /\ [][FoundStale
          => \A i \in DOMAIN staleStaged :
               InManifest(manifestFile', staleStaged[i])
                 => InManifest(manifestFile, staleStaged[i])]_vars
  /\ []((FoundStale /\ rpc = "call" /\ callSeq = <<>>) => ~stagingFile.exists)
  /\ [](DeclinedStale => (manifestFile = manifest /\ stagingFile = staging
                             /\ stagingFile.completed = staleStaged))

C11_Witness ==
  /\ FoundStale
  /\ rpc = "final_clear"
  /\ succeeded # {}
  /\ \A i \in DOMAIN staleStaged : ~InManifest(manifestFile, staleStaged[i])

\* C12: when a run over the tree the previous run saw computes filesToProcess,
\* every file the previous run selected by detection and ended without a
\* successful result for is selected again.
C12_UnfinishedSelectedAgain ==
  [][(rpc = "detect" /\ selected'.known /\ untouched)
       => owed \subseteq selected'.paths]_vars

\* C13: a step of a run that deletes the staging file (the discard of a stale
\* log aside) is taken only when the staging file holds no failed entry, and
\* no step of a run drops a failed entry from the staging file.
C13_FailedLogKept ==
  [][(~Inactive /\ rpc # "discard" /\ stagingFile.exists
        /\ Len(stagingFile.failed) > 0)
       => /\ stagingFile'.exists
          /\ \A i \in DOMAIN stagingFile.failed :
               \E j \in DOMAIN stagingFile'.failed :
                 stagingFile'.failed[j].path = stagingFile.failed[i].path]_vars

\* the artifact the run produced for path p is in the staging file or in the
\* manifest file
ArtifactSaved(p) ==
  \/ InManifest(manifestFile, [path |-> p, summaries |-> Summaries(p)])
  \/ \E i \in DOMAIN stagingFile.completed :
       /\ stagingFile.completed[i].path = p
       /\ stagingFile.completed[i].summaries = Summaries(p)

\* C14: once a path failed with a rate-limit error the run makes no further
\* summarizer call, and when the run is in its finally block every artifact
\* staged before the failure is in the staging file or the manifest file.
C14_RateLimitAborts ==
  /\ [][rateLimitHit => ~AttemptStep]_vars
  /\ []((rateLimitHit /\ rpc \in {"finally", "release"})
          => \A p \in succeeded : ArtifactSaved(p))

C14_Witness ==
  /\ rateLimitHit
  /\ rpc = "release"
  /\ Cardinality(succeeded) >= 2
  /\ todo # <<>>

\* the step is the failure handler of the loop for an error that is no rate
\* limit: the call is over, without a result and without a rate limit
FailureStep ==
  /\ rpc = "call"
  /\ rpc' \notin {"crashed", "sleep"}
  /\ succeeded' = succeeded
  /\ ~rateLimitHit'

\* C15: the failure handler for an error that is no rate limit leaves a
\* failed entry of the path, with the reason and a retry count, in the staging
\* file, which equals the staging in memory, and the run goes on with the
\* next path of the loop if there is one.
C15_FailureRecorded ==
  [][FailureStep
       => /\ \E i \in DOMAIN stagingFile'.failed :
               /\ stagingFile'.failed[i].path = Head(todo)
               /\ stagingFile'.failed[i].error = "api error"
               /\ stagingFile'.failed[i].retryCount >= 1
               /\ ~stagingFile'.failed[i].isRateLimited
          /\ stagingFile' = staging'
          /\ Tail(todo) # <<>> => (rpc' = "call" /\ todo' = Tail(todo))
          /\ rpc' \in {"call", "final"}]_vars

C15_Witness ==
  /\ rpc = "call"
  /\ Len(callSeq) >= 1
  /\ phase = "files"
  /\ \E i \in DOMAIN stagingFile.failed :
       /\ stagingFile.failed[i].path = callSeq[Len(callSeq)]
       /\ stagingFile.failed[i].path # Head(todo)
       /\ stagingFile.failed[i].retryCount = 2

\* C16: after saveStaging or saveManifest threw in a run, the run hands no
\* further path to the summarizer; the step in which the write fails adds no
\* failed entry to the staging; and once the run has returned the lock file
\* does not record it.
C16_WriteFailureAborts ==
  /\ [][writeFailed => ~AttemptStep]_vars
  /\ [][(~writeFailed /\ writeFailed' /\ rpc = "call" /\ succeeded' = succeeded
           /\ rpc' # "finally")
          => Len(staging'.failed) = Len(staging.failed)]_vars
  /\ []((writeFailed /\ rpc = "done") => ~(lockFile.exists /\ lockFile.pid = Pid))

\* path e lies below directory d in the tree
RECURSIVE IsDescendant(_, _)
IsDescendant(e, d) ==
  \E i \in DOMAIN ChildSeq(d) :
    \/ ChildSeq(d)[i] = e
    \/ ChildSeq(d)[i] \in Dirs /\ IsDescendant(e, ChildSeq(d)[i])

\* C17: in the sequence of nodes a run hands to the summarizer no file comes
\* after a directory, a directory comes only once every file selected by the
\* run has been handed over, and no directory comes after one of its
\* ancestors (nor a second time).
C17_DirectoriesAfterFilesDeepestFirst ==
  \A i \in DOMAIN callSeq :
    callSeq[i] \in Dirs =>
      /\ selected.known
      /\ selected.paths \subseteq {callSeq[k] : k \in 1..(i - 1)}
      /\ \A j \in (i + 1)..Len(callSeq) :
           /\ callSeq[j] \in Dirs
           /\ callSeq[j] # callSeq[i]
           /\ ~IsDescendant(callSeq[j], callSeq[i])

\* a run handed directory d/e and then its parent d to the summarizer
C17_Witness ==
  \E i, j \in DOMAIN callSeq :
    /\ i < j
    /\ callSeq[i] = "d/e"
    /\ callSeq[j] = "d"
    /\ selected.paths # {}

\* generateDirectorySummary: the children of directory p whose summaries
\* make up the prompt
childSummaries(tr, p) ==
  {c \in {ChildSeq(p)[i] : i \in DOMAIN ChildSeq(p)} :
     tr[c].present /\ tr[c].sum # NoSum}

\* C18: a step of a run after which no child of a directory carries summaries
\* leaves the directory out of the nodes handed to the summarizer in the run
\* and writes no completed and no failed entry for it to the staging file.
C18_UndocumentedDirectorySkipped ==
  [][\A p \in Dirs :
       (~Inactive' /\ childSummaries(tree', p) = {}) =>
         /\ p \notin called'
         /\ stagingFile'.exists =>
              /\ \A i \in DOMAIN stagingFile'.completed :
                   stagingFile'.completed[i].path = p =>
                     /\ stagingFile.exists
                     /\ \E k \in DOMAIN stagingFile.completed :
                          stagingFile.completed[k] = stagingFile'.completed[i]
              /\ \A i \in DOMAIN stagingFile'.failed :
                   stagingFile'.failed[i].path = p =>
                     /\ stagingFile.exists
                     /\ \E k \in DOMAIN stagingFile.failed :
                          stagingFile.failed[k] = stagingFile'.failed[i]]_vars

\* a run reached its final bundle with directory d handed to the summarizer
\* and directory d/e, whose only file failed, left out
C18_Witness ==
  /\ rpc = "final"
  /\ "d" \in called
  /\ "d/e/f" \in called
  /\ childSummaries(tree, "d/e") = {}
  /\ "d/e" \notin called
  /\ \A i \in DOMAIN staging.completed : staging.completed[i].path # "d/e"
  /\ \A i \in DOMAIN staging.failed : staging.failed[i].path # "d/e"

\* C19 as stated: the completed list of the staging file never holds more
\* than BundleThreshold entries.
C19_CompletedAtMostThreshold ==
  stagingFile.exists => Len(stagingFile.completed) <= BundleThreshold

\* the positions of the processing loops and of the final bundle
Processing ==
  rpc \in {"call", "sleep", "bundle_manifest", "bundle_staging", "final",
           "final_clear"}

\* C19 (amended): while a run processes, the completed list of the staging
\* file holds at most BundleThreshold entries more than the log the run
\* resumed from (none in a fresh run); the step that stages the
\* BundleThreshold-th entry since the start or the last bundle goes on to the
\* bundle; the bundle has every staged entry in the saved manifest before it
\* resets the completed list to empty and keeps the failed entries.
C19_PendingAtMostThreshold ==
  /\ []((Processing /\ stagingFile.exists)
          => Len(stagingFile.completed) <= Len(startStaged) + BundleThreshold)
  /\ [][(rpc = "call" /\ succeeded' # succeeded
           /\ pendingCount' >= BundleThreshold)
          => rpc' = "bundle_manifest"]_vars
  /\ [](rpc = "bundle_staging"
          => /\ manifestFile = manifest
             /\ \A p \in succeeded : manifestFile.nodes[p].sum = Summaries(p))
  /\ [][rpc = "bundle_staging"
          => /\ ~stagingFile'.exists
                \/ /\ stagingFile'.completed = <<>>
                   /\ stagingFile'.failed = staging.failed
                   /\ pendingCount' = 0
             \/ Inactive']_vars

\* a resumed run has staged BundleThreshold entries on top of the entries of
\* the log it resumed from, and the log holds a failed entry too
C19_Witness ==
  /\ rpc = "bundle_staging"
  /\ Len(startStaged) > 0
  /\ Len(stagingFile.completed) = Len(startStaged) + BundleThreshold
  /\ Len(stagingFile.failed) > 0

\* the run is past its final bundle and the clearing of the staging file
RunEnded == rpc \in {"finally", "release"}

\* C20: once a run is past its final bundle, every node the summarizer
\* succeeded on in the run has the summaries of the run in the manifest
\* file, after a rate limit too.
C20_ProcessedInManifestAtEnd ==
  RunEnded =>
    \A p \in succeeded :
      InManifest(manifestFile, [path |-> p, summaries |-> Summaries(p)])

\* a run hit the rate limit with a staged entry not yet bundled and ended
C20_Witness ==
  /\ RunEnded
  /\ rateLimitHit
  /\ succeeded # {}
  /\ pendingCount > 0
  /\ stagingFile.exists
  /\ Len(stagingFile.completed) > 0

\* the step is the failure handler of the loop (updateCommand 551-578 /
\* 679-703) for the node at the head of todo
HandlerStep ==
  /\ rpc = "call"
  /\ rpc' \notin {"crashed", "sleep"}
  /\ succeeded' = succeeded

\* C21: when the failure handler runs for a node that already has a failed
\* entry in the staging, the entry it leaves for the node carries the
\* previous retryCount plus one.
C21_RetryCountIncremented ==
  [][(HandlerStep /\ FailedIndex(staging.failed, Head(todo)) > 0)
       => LET p == Head(todo)
              old == staging.failed[FailedIndex(staging.failed, p)]
              new == staging'.failed[FailedIndex(staging'.failed, p)]
          IN /\ FailedIndex(staging'.failed, p) > 0
             /\ new.retryCount = old.retryCount + 1]_vars

\* the error is a rate-limit error or an API error flagged retryable
Retryable(error) ==
  \/ error.kind = "RateLimitError"
  \/ error.kind = "ApiError" /\ error.isRetryable

\* withRetry has returned or thrown
WrEnded == wrPc \in {"returned", "thrown"}

\* C22: withRetry invokes fn at most maxRetries + 1 times, and exactly that
\* often when it throws after retryable errors only; it has slept once after
\* every invocation but the last; a value it returns is that of the
\* invocation made last, the only one that resolved; once it has returned or
\* thrown, fn is not invoked again.
C22_AttemptsAndSleeps ==
  /\ [](fnCalls <= opts.maxRetries + 1)
  /\ []((wrPc = "thrown" /\ \A i \in DOMAIN raised : Retryable(raised[i]))
          => fnCalls = opts.maxRetries + 1)
  /\ [](wrPc = "call" => sleeps = fnCalls)
  /\ []((wrPc = "sleep" \/ WrEnded) => sleeps = fnCalls - 1)
  /\ [](wrPc = "returned"
          => /\ wrResult.kind = "value"
             /\ wrResult.value = fnCalls
             /\ Len(raised) = fnCalls - 1)
  /\ [][WrEnded => (fnCalls' = fnCalls /\ sleeps' = sleeps)]_vars

\* withRetry with the default maxRetries threw after four retryable errors
\* and three sleeps
C22_Witness ==
  /\ wrPc = "thrown"
  /\ opts.maxRetries = DEFAULT_OPTIONS.maxRetries
  /\ fnCalls = 4
  /\ sleeps = 3
  /\ \A i \in DOMAIN raised : Retryable(raised[i])

\* C23: when fn rejects with an error that is neither a rate-limit error nor
\* an API error flagged retryable, withRetry throws that error in the same
\* step, at whichever attempt, without computing a delay or sleeping, and fn
\* is not invoked afterwards.
C23_NonRetryablePropagates ==
  /\ [][(wrPc = "call" /\ fnCalls' = fnCalls + 1 /\ Len(raised') > Len(raised)
           /\ ~Retryable(lastError'))
          => /\ wrPc' = "thrown"
             /\ wrResult' = [kind |-> "error", value |-> 0, error |-> lastError']
             /\ delay' = delay
             /\ sleeps' = sleeps]_vars
  /\ [][wrPc = "thrown" => fnCalls' = fnCalls]_vars

\* withRetry threw a non-retryable error raised by the third invocation
C23_Witness ==
  /\ wrPc = "thrown"
  /\ fnCalls = 3
  /\ fnCalls <= opts.maxRetries
  /\ ~Retryable(wrResult.error)
  /\ wrResult.error.id = 3

\* C24: what withRetry throws is the error of the invocation made last, the
\* very value fn rejected with, also when every attempt failed; withRetry
\* holds a value only if the invocation made last resolved, and holds
\* nothing while it is calling or sleeping.
C24_ThrowsLastError ==
  /\ wrPc = "thrown"
       => /\ wrResult.kind = "error"
          /\ Len(raised) = fnCalls
          /\ wrResult.error = raised[Len(raised)]
          /\ wrResult.error.id = fnCalls
  /\ wrResult.kind = "value" => (wrPc = "returned" /\ Len(raised) < fnCalls)
  /\ wrPc \in {"call", "sleep"} => wrResult.kind = "none"

\* every one of maxRetries + 1 >= 2 attempts failed, the first error is of
\* another kind than the last
C24_Witness ==
  /\ wrPc = "thrown"
  /\ fnCalls = opts.maxRetries + 1
  /\ fnCalls >= 2
  /\ raised[1].kind # raised[Len(raised)].kind
  /\ wrResult.error = raised[Len(raised)]

\* C25: the delay computed for a rate-limit error that carries a retryAfter
\* of r seconds is min(r, maxDelay).
C25_RetryAfterVerbatim ==
  [][(wrPc = "call" /\ wrPc' = "sleep"
       /\ lastError'.kind = "RateLimitError" /\ lastError'.hasRetryAfter)
      => delay' = Min(lastError'.retryAfter * 1000, opts.maxDelayMs)]_vars

\* C26: the delay computed for an error without retryAfter at attempt k is
\* min(initialDelay * multiplier^k + jitter, maxDelay) for a jitter between 0
\* and a tenth of initialDelay * multiplier^k; it is at least
\* min(initialDelay * multiplier^k, maxDelay) and at most maxDelay.
C26_ExponentialDelay ==
  [][(wrPc = "call" /\ wrPc' = "sleep" /\ ~lastError'.hasRetryAfter)
      => LET exp == opts.initialDelayMs * Pow(opts.backoffMultiplier, wrAttempt)
         IN /\ delay' <= opts.maxDelayMs
            /\ delay' >= Min(exp, opts.maxDelayMs)
            /\ delay' < opts.maxDelayMs
                 => (delay' - exp >= 0 /\ 10 * (delay' - exp) <= exp)
            /\ delay' = opts.maxDelayMs
                 => 10 * (opts.maxDelayMs - exp) <= exp]_vars

\* withRetry sleeps the maximal delay before its second retry, the
\* exponential delay being above it
C26_Witness ==
  /\ wrPc = "sleep"
  /\ wrAttempt = 1
  /\ ~lastError.hasRetryAfter
  /\ opts.initialDelayMs * Pow(opts.backoffMultiplier, wrAttempt) > opts.maxDelayMs
  /\ delay = opts.maxDelayMs

\* C27: whatever step of saveStaging the process has reached or crashed at,
\* loadStaging returns the log it returned when the call began or the log
\* the call is saving, both complete, and returns null only if no
\* saveStaging has returned yet; staging.json never holds a text that does
\* not parse.
C27_StagingSaveAtomic ==
  LET r == loadStaging(fs)
  IN /\ r = stCall.old \/ (r.ok /\ r.doc = stCall.new /\ stCall.new > 0)
     /\ ~r.ok => stReturned = 0
     /\ fs[stagingPath].exists => r.ok

\* the process crashed inside saveStaging with the temp file partly written,
\* a log saved before is on disk
C27_Witness ==
  /\ svCrashed
  /\ svPc = "idle"
  /\ svDoc = stCall.new
  /\ fs["staging.json.tmp"].exists
  /\ Len(fs["staging.json.tmp"].text) \in 1..2
  /\ stCall.old.ok
  /\ loadStaging(fs) = stCall.old

\* C28: after a crash of the process at whatever step of saveManifest,
\* manifest.json holds the complete manifest that was there when the call
\* began or the complete manifest the call was saving.
C28_ManifestSaveAtomic ==
  (svCrashed /\ svDoc = mfCall.new) =>
    LET r == loadManifest(fs)
    IN /\ fs[manifestPath].exists
       /\ r.ok
       /\ r = mfCall.old \/ r.doc = mfCall.new

\* number of times path p occurs in the list
Occurrences(list, p) == Cardinality({i \in DOMAIN list : list[i] = p})

\* the path is a key of the manifest passed to detectChanges
Stored(p) == dcManifest.loaded /\ dcManifest.manifest.nodes[p].present

C30_UnchangedCarryStored ==
  /\ [](dcResult.done =>
          /\ \A i \in DOMAIN dcResult.unchanged :
               LET p == dcResult.unchanged[i]
               IN /\ dcTree[p].sum = dcManifest.manifest.nodes[p].sum
                  /\ dcTree[p].lastAnalyzed = dcManifest.manifest.nodes[p].lastAnalyzed
          /\ \A i \in DOMAIN dcResult.new : dcTree[dcResult.new[i]] = dcBefore[dcResult.new[i]]
          /\ \A i \in DOMAIN dcResult.changed :
               dcTree[dcResult.changed[i]] = dcBefore[dcResult.changed[i]])
  /\ [][dcManifest' = dcManifest]_vars

\* detectChanges returned an unchanged path whose node took over stored
\* summaries and a changed path whose node kept summaries of its own
C30_Witness ==
  /\ dcResult.done
  /\ Len(dcResult.unchanged) = 1
  /\ Len(dcResult.changed) = 1
  /\ dcTree[dcResult.unchanged[1]] # dcBefore[dcResult.unchanged[1]]
  /\ dcTree[dcResult.unchanged[1]].sum # NoSum
  /\ dcTree[dcResult.changed[1]].sum = [by |-> 7, of |-> 7]

C35_OneEntryPerPath ==
  stagingFile.exists =>
    \A p \in AllPaths :
      Cardinality({i \in DOMAIN stagingFile.completed :
                     stagingFile.completed[i].path = p})
      + Cardinality({i \in DOMAIN stagingFile.failed :
                       stagingFile.failed[i].path = p}) <= 1

\* C37: whenever a run writes manifest.json, the codeRootHash it stores is
\* the childrenHash of the root node of the node map it stores
C37_StoredRootHashIsRootOfNodes ==
  [][manifestFile' # manifestFile =>
       manifestFile'.codeRootHash = manifestFile'.nodes["."].hash]_vars

\* C39: when the loops of a run are over without a rate limit, or the run
\* returns because no file needs processing, every directory other than "."
\* that the change detection classified new or changed and that has a child
\* carrying summaries was handed to the summarizer
C39_ChangedDirectoriesProcessed ==
  (/\ detected.known
   /\ \/ rpc = "final" /\ ~rateLimitHit
      \/ rpc = "clear_return" /\ selected.paths = {}) =>
    \A p \in Dirs \ {"."} :
      (/\ \E i \in DOMAIN (detected.new \o detected.changed) :
            (detected.new \o detected.changed)[i] = p
       /\ \E i \in DOMAIN ChildSeq(p) :
            /\ tree[ChildSeq(p)[i]].present
            /\ tree[ChildSeq(p)[i]].sum # NoSum)
      => p \in called

\* C36: a merge of the staging log into the manifest attaches the summaries
\* of a completed entry to a node only if the node's hash is the fileHash
\* recorded in the entry
C36_MergeChecksFingerprint ==
  [][manifestFile' # manifestFile =>
       \A i \in DOMAIN staging.completed :
         LET e == staging.completed[i]
         IN (/\ manifestFile'.nodes[e.path].present
             /\ manifestFile'.nodes[e.path].sum = e.summaries)
            => e.fileHash = manifestFile'.nodes[e.path].hash]_vars

\* C38: after a run that returned with every selected file summarized and no
\* failure left, no path the change detection classified as deleted is a
\* node of manifest.json
C38_DeletedLeaveManifest ==
  (/\ rpc = "done"
   /\ detected.known
   /\ selected.paths \subseteq succeeded
   /\ ~stagingFile.exists) =>
    \A i \in DOMAIN detected.deleted :
      ~manifestFile.nodes[detected.deleted[i]].present

IsAbove(d, p) == Len(d) < Len(p) /\ SubSeq(p, 1, Len(d)) = d

\* the fingerprint of a node: fileHash of a file, childrenHash of a directory
Fingerprint(n) == IF n.type = "file" THEN n.fileHash ELSE n.childrenHash

\* the rearrangements of the sequence s
Rearrangements(s) ==
  {[i \in DOMAIN s |-> s[f[i]]] :
     f \in {g \in [DOMAIN s -> DOMAIN s] :
              \A i, j \in DOMAIN s : g[i] = g[j] => i = j}}

\* C32: the children fingerprint of a directory does not depend on the order
\* in which the file system enumerates its children: whatever order readdirSync
\* had used, buildCodeMerkleTree would have returned the same tree and root
\* fingerprint, and computeDirectoryHash gives the directory's fingerprint for
\* every rearrangement of the fingerprints of its children
C32_EnumerationOrderIrrelevant ==
  builtTree.built =>
    /\ \A order \in Enumerations :
         buildMerkleTree(diskBytes, cfgExclude, order) = builtTree
    /\ \A d \in TreeDirs : builtTree.tree[d].type = "directory" =>
         LET children == builtTree.tree[d].children
             hashes == [i \in DOMAIN children |->
                          Fingerprint(builtTree.tree[children[i]])]
         IN \A s \in Rearrangements(hashes) :
              computeDirectoryHash(s) = builtTree.tree[d].childrenHash

\* a tree built from an enumeration that is not in the order of the names, the
\* root and src each with two children of different fingerprints
C32_Witness ==
  /\ builtTree.built
  /\ readdirOrder[Root] = << <<"src">>, <<"dist">> >>
  /\ readdirOrder[<<"src">>] = << <<"src", "logo.png">>, <<"src", "b.ts">> >>
  /\ Len(builtTree.tree[Root].children) = 2
  /\ Len(builtTree.tree[<<"src">>].children) = 2
  /\ builtTree.tree[<<"src", "b.ts">>].fileHash
       # builtTree.tree[<<"src", "logo.png">>].fileHash
  /\ builtTree.tree[<<"src">>].childrenHash # builtTree.tree[<<"dist">>].childrenHash

\* C33: of two trees built from directories that are the same except for the
\* bytes of one file of the tree, every directory above that file, up to the
\* root, has a different fingerprint in the two, and every other node except
\* the file itself has the same fingerprint in both (the digest of the model
\* has no collisions)
C33_LeafChangeReachesRoot ==
  (builtTree.built /\ prevTree.built
     /\ builtTree.tree[editedLeaf].type = "file") =>
    /\ \A p \in TreePaths :
         IF IsAbove(p, editedLeaf)
         THEN Fingerprint(prevTree.tree[p]) # Fingerprint(builtTree.tree[p])
         ELSE p # editedLeaf => prevTree.tree[p] = builtTree.tree[p]
    /\ prevTree.rootHash # builtTree.rootHash

\* src/b.ts was edited between two builds, with nodes beside it and beside src
C33_Witness ==
  /\ builtTree.built
  /\ prevTree.built
  /\ editedLeaf = <<"src", "b.ts">>
  /\ builtTree.tree[<<"src", "b.ts">>].type = "file"
  /\ builtTree.tree[<<"src", "logo.png">>].type = "file"
  /\ builtTree.tree[<<"dist", "a.ts">>].type = "file"

\* C34: the nodes record returned by buildCodeMerkleTree holds no entry that
\* shouldExclude matches and no entry below a directory it matches; every
\* entry of the record other than the root has its directory in the record and
\* is listed in the children of that directory; and the excluded entries
\* contribute nothing to a directory fingerprint: it is the fingerprint of the
\* children listed, and the bytes of the excluded files do not matter
C34_ExcludedEntriesLeftOut ==
  builtTree.built =>
    /\ \A p \in TreePaths \ {Root} :
         (\E q \in TreePaths \ {Root} :
            (q = p \/ IsAbove(q, p)) /\ shouldExclude(q, cfgExclude))
           => builtTree.tree[p].type = "null"
    /\ \A p \in TreePaths \ {Root} : builtTree.tree[p].type # "null" =>
         /\ builtTree.tree[p].path = p
         /\ builtTree.tree[parentOf(p)].type = "directory"
         /\ \E i \in DOMAIN builtTree.tree[parentOf(p)].children :
              builtTree.tree[parentOf(p)].children[i] = p
    /\ \A d \in TreeDirs : builtTree.tree[d].type = "directory" =>
         LET children == builtTree.tree[d].children
         IN /\ \A i \in DOMAIN children :
                 builtTree.tree[children[i]].type # "null"
            /\ builtTree.tree[d].childrenHash =
                 computeDirectoryHash([i \in DOMAIN children |->
                                         Fingerprint(builtTree.tree[children[i]])])
    /\ \A bytes \in [TreeFiles -> Bytes] :
         (\A f \in TreeFiles :
            builtTree.tree[f].type = "file" => bytes[f] = diskBytes[f])
           => buildMerkleTree(bytes, cfgExclude, readdirOrder) = builtTree

\* dist is excluded by a glob that its file does not match, logo.png by its
\* extension, and src/b.ts is in the tree
C34_Witness ==
  /\ builtTree.built
  /\ cfgExclude = {<<"d*">>, <<"*.png">>}
  /\ ~shouldExclude(<<"dist", "a.ts">>, cfgExclude)
  /\ builtTree.tree[<<"dist", "a.ts">>].type = "null"
  /\ builtTree.tree[<<"src", "logo.png">>].type = "null"
  /\ builtTree.tree[<<"src", "b.ts">>].type = "file"
  /\ builtTree.tree[Root].children = << <<"src">> >>

====
